---------------------------- MODULE Spec2Model ----------------------------
(***************************************************************************)
(* linkfield: a watched directory tree mirrored into a metadata cache      *)
(* (in memory and in a redb table), with move detection from Remove/Create *)
(* event pairs.                                                            *)
(*                                                                         *)
(* The module holds several specifications over one set of variables:      *)
(*   SpecScore  score_pair as a pure function of two FileEvents            *)
(*   SpecHeur   MoveHeuristics driven through add_remove / pair_create     *)
(*   SpecWatch  the watcher's handlers over a file system, the cache and   *)
(*              the heuristics                                             *)
(*   SpecDiff   FileCache::diff_and_update against the redb table          *)
(* Each specification leaves the variables of the others at their initial  *)
(* value.                                                                  *)
(***************************************************************************)
EXTENDS Integers, Sequences, FiniteSets, TLC

VARIABLES
    \* score_pair's arguments and result (SpecScore)
    remove, create, score,
    \* the build profile: TRUE when integer overflow panics (debug), FALSE
    \* when it wraps (release)
    overflow_checks,
    \* MoveHeuristics (SpecHeur, SpecWatch)
    remove_events, max_age,
    \* Instant::now(), in clock ticks
    now,
    \* the last add_remove / pair_create call: its argument, the `now` its
    \* prune_old read, the buffer after that prune, and what it returned
    ret,
    \* allocation order of the FileEvents handed to add_remove (object
    \* identity), and per pair_create call the id it returned as `from`, 0
    \* when it returned none
    next_id, paired,
    \* the file system, the debounced event queue, the watcher thread's
    \* recently_moved set and what the watcher printed for the last event
    fs, rx, recently_moved, printed,
    \* the Create event whose handler has updated the cache and has not yet
    \* taken its snapshot
    pending,
    \* the paths a move to which was reported and for which no generic Modify
    \* event has been handled since (bookkeeping)
    detected,
    \* the watcher thread's position, the one-shot ready channel, what
    \* start_watcher has reported to its caller, and the poisoned Mutexes
    wthread, ready_ch, reported, poisoned,
    \* the holder of each Mutex and the position of each thread of run()
    \* (SpecMutex)
    mutex, threads,
    \* FileCache: the in-memory map, the redb table, and the effects of the
    \* last FileCache call in program order
    files, table, oplog, staged,
    \* the path tree: the entry map, the id counter, the last call on the
    \* tree, and the keys the streaming scan has inserted since its last flush
    entries, next_key, tret, batch_keys,
    \* the streaming scan: its call stack, the arguments on_batch got, and
    \* the batches handed to update_redb_batch_commit
    stack, on_batch_calls, flushes,
    \* the codec of FileMeta: a record, the Vec serialize gave for it, and
    \* the record deserialize gave for the bytes
    self_meta, vec, decoded

scoreVars == <<remove, create, score>>
heurVars  == <<remove_events, max_age, now, ret, next_id, paired>>
watchVars == <<fs, rx, recently_moved, printed, pending, detected>>
threadVars == <<wthread, ready_ch, reported, poisoned>>
cacheVars == <<files, table, oplog, staged>>
treeVars  == <<entries, next_key, tret, batch_keys>>
scanVars  == <<stack, on_batch_calls, flushes>>
codecVars == <<self_meta, vec, decoded>>
lockVars == <<mutex, threads>>
vars == <<remove, create, score, overflow_checks, remove_events, max_age, now,
          ret, next_id, paired, fs, rx, recently_moved, printed, pending, detected, wthread,
          ready_ch, reported, poisoned, files,
          table, oplog, staged, entries, next_key, tret, batch_keys, stack,
          on_batch_calls, flushes, self_meta, vec, decoded, mutex, threads>>

(***************************************************************************)
(* Option<T>                                                               *)
(***************************************************************************)
None == <<>>
Some(x) == <<x>>
IsSome(o) == o # <<>>
Unwrap(o) == o[1]

(***************************************************************************)
(* 64-bit integers.  TLC's integers are narrower than 64 bits, so a 64-bit *)
(* value is written k * 2^62 + off with |off| far below 2^62: [k, off].    *)
(* Every value of 0 .. 2^64-1 within OffRange of a multiple of 2^62 has    *)
(* exactly one such form, and the arithmetic below is exact on them.       *)
(***************************************************************************)
Big(k, off) == [k |-> k, off |-> off]
BigLt(a, b) == a.k < b.k \/ (a.k = b.k /\ a.off < b.off)
BigSub(a, b) == Big(a.k - b.k, a.off - b.off)
BigNeg(a) == Big(0 - a.k, 0 - a.off)
\* a >= 2^63, a < -2^63
GeTwo63(a) == a.k > 2 \/ (a.k = 2 /\ a.off >= 0)
LtMinusTwo63(a) == a.k < -2 \/ (a.k = -2 /\ a.off < 0)
InI64(a) == ~GeTwo63(a) /\ ~LtMinusTwo63(a)
\* reduction of an integer in (-2^65, 2^65) to i64, two's complement
WrapI64(a) ==
    IF GeTwo63(a) THEN Big(a.k - 4, a.off)
    ELSE IF LtMinusTwo63(a) THEN Big(a.k + 4, a.off)
    ELSE a

\* `x as i64` for x: u64
U64AsI64(x) == WrapI64(x)

\* i64 subtraction and abs: [panic |-> TRUE] with overflow checks on and a
\* result out of range, the wrapped value otherwise
Panic == [panic |-> TRUE]
Val(v) == [panic |-> FALSE, v |-> v]
I64Sub(a, b, checks) ==
    LET d == BigSub(a, b)
    IN  IF ~InI64(d) /\ checks THEN Panic ELSE Val(WrapI64(d))
I64Abs(a, checks) ==
    IF BigLt(a, Big(0, 0))
    THEN LET n == BigNeg(a)
         IN  IF ~InI64(n) /\ checks THEN Panic ELSE Val(WrapI64(n))
    ELSE Val(a)

(***************************************************************************)
(* Paths: a sequence of components, each a sequence of characters.         *)
(***************************************************************************)
\* Path::file_name: the last component, none for an empty path or ".."
FileName(path) ==
    IF path = <<>> THEN None
    ELSE LET last == path[Len(path)]
         IN  IF last = <<".", ".">> THEN None ELSE Some(last)

\* positions of '.' in a name
Dots(name) == {i \in 1..Len(name) : name[i] = "."}
LastDot(name) == CHOOSE i \in Dots(name) : \A j \in Dots(name) : j <= i

\* Path::extension: the part of the file name after its last '.', none when
\* there is no file name, no '.', or the only '.' starts the name
Extension(path) ==
    LET fname == FileName(path)
    IN  IF ~IsSome(fname) THEN None
        ELSE LET name == Unwrap(fname)
             IN  IF Dots(name) = {} \/ LastDot(name) = 1 THEN None
                 ELSE Some(SubSeq(name, LastDot(name) + 1, Len(name)))

\* str::starts_with
StartsWith(s, prefix) ==
    Len(prefix) <= Len(s) /\ SubSeq(s, 1, Len(prefix)) = prefix

(***************************************************************************)
(* f64 scores.  A score is written as 100 * (tenths) + the distance, in    *)
(* units of 2^-54, from the f64 nearest that decimal: 500 is the literal   *)
(* 0.5, 898 is 0.8999999999999999.  The order of the encodings is the      *)
(* order of the f64 values.                                                *)
(***************************************************************************)
F64_0_1 == 100
F64_0_2 == 200
F64_0_4 == 400
F64_0_5 == 500
F64_0_7 == 700
F64_1_0 == 1000

\* the rounding of a + b to nearest f64, for the sums score_pair can form
F64RoundErr(a, b) ==
    CASE a = 200  /\ b = 100 -> 1
      [] a = 301  /\ b = 100 -> -1
      [] a = 400  /\ b = 200 -> 2
      [] a = 602  /\ b = 200 -> -2
      [] a = 700  /\ b = 100 -> -2
      [] a = 700  /\ b = 200 -> -2
      [] a = 702  /\ b = 100 -> -2
      [] a = 898  /\ b = 200 -> -2
      [] a = 998  /\ b = 100 -> -2
      [] a = 1096 /\ b = 100 -> 4
      [] OTHER -> 0
F64Add(a, b) == a + b + F64RoundErr(a, b)
F64Min(a, b) == IF a < b THEN a ELSE b

(***************************************************************************)
(* SystemTime, in ticks of 1/MTimeTicksPerSec second.                      *)
(***************************************************************************)
MTimeTicksPerSec == 2

\* SystemTime::duration_since(earlier): Err when `earlier` is later than self
DurationSince(t, earlier) == IF t >= earlier THEN Some(t - earlier) ELSE None
\* Result::unwrap_or_default on a Duration: zero for Err
UnwrapOrDefault(d) == IF IsSome(d) THEN Unwrap(d) ELSE 0
\* Duration::as_secs: whole seconds
AsSecs(d) == d \div MTimeTicksPerSec

(***************************************************************************)
(* FileEvent and score_pair                                                *)
(***************************************************************************)
\* metadata: None, or Some([modified |-> None | Some(SystemTime)]) where a
\* None `modified` is the Err of Metadata::modified()
FileEvent(path, kind, time, size, metadata) ==
    [path |-> path, kind |-> kind, time |-> time, size |-> size,
     metadata |-> metadata, id |-> 0, added |-> 0, cached |-> None]

SizeDiffLimit == 16
TimestampLimitSecs == 2

\* lines 94-100: the score after the size block
ScoreAfterSize(r, c, checks) ==
    IF IsSome(r.size) /\ IsSome(c.size)
    THEN LET rs == Unwrap(r.size)
             cs == Unwrap(c.size)
         IN  IF rs = cs /\ BigLt(Big(0, 0), rs)
             THEN Val(F64Add(0, F64_0_7))
             ELSE LET d == I64Sub(U64AsI64(rs), U64AsI64(cs), checks)
                  IN  IF d.panic THEN Panic
                      ELSE LET a == I64Abs(d.v, checks)
                           IN  IF a.panic THEN Panic
                               ELSE IF BigLt(a.v, Big(0, SizeDiffLimit))
                                    THEN Val(F64Add(0, F64_0_4))
                                    ELSE Val(0)
    ELSE Val(0)

\* lines 102-104
ScoreAfterExtension(s, r, c) ==
    IF Extension(r.path) = Extension(c.path) THEN F64Add(s, F64_0_2) ELSE s

\* lines 106-114
ScoreAfterName(s, r, c) ==
    IF IsSome(FileName(r.path)) /\ IsSome(FileName(c.path))
    THEN LET rn == Unwrap(FileName(r.path))
             cn == Unwrap(FileName(c.path))
         IN  IF rn = cn THEN F64Add(s, F64_0_2)
             ELSE IF StartsWith(rn, cn) \/ StartsWith(cn, rn)
                  THEN F64Add(s, F64_0_1)
                  ELSE s
    ELSE s

\* lines 118-119: the condition under which the timestamp bonus is added
TimestampsClose(rmt, cmt) ==
    \/ AsSecs(UnwrapOrDefault(DurationSince(rmt, cmt))) < TimestampLimitSecs
    \/ AsSecs(UnwrapOrDefault(DurationSince(cmt, rmt))) < TimestampLimitSecs

\* lines 116-124
ScoreAfterTimestamp(s, r, c) ==
    IF IsSome(r.metadata) /\ IsSome(c.metadata)
    THEN LET rmt == Unwrap(r.metadata).modified
             cmt == Unwrap(c.metadata).modified
         IN  IF IsSome(rmt) /\ IsSome(cmt) /\ TimestampsClose(Unwrap(rmt), Unwrap(cmt))
             THEN F64Add(s, F64_0_1)
             ELSE s
    ELSE s

\* score_pair: Panic, or Val(the f64 returned)
ScorePair(r, c, checks) ==
    LET s1 == ScoreAfterSize(r, c, checks)
    IN  IF s1.panic THEN Panic
        ELSE Val(F64Min(ScoreAfterTimestamp(
                            ScoreAfterName(
                                ScoreAfterExtension(s1.v, r, c), r, c), r, c),
                        F64_1_0))

(***************************************************************************)
(* Inputs                                                                  *)
(***************************************************************************)
Dir == <<"d">>
A_T   == <<Dir, <<"a", ".", "t">>>>
B_T   == <<Dir, <<"b", ".", "t">>>>
A_TX  == <<Dir, <<"a", ".", "t", "x">>>>
ZZ_B  == <<Dir, <<"z", "z", ".", "b">>>>
A_    == <<Dir, <<"a">>>>
DOT_T == <<Dir, <<".", "t">>>>
E_A_T == <<<<"e">>, <<"a", ".", "t">>>>

U64Max == Big(4, -1)
Two63  == Big(2, 0)

ScorePaths == {A_T, B_T, A_TX, ZZ_B, A_, DOT_T, E_A_T}
ScoreSizes == {None, Some(Big(0, 0)), Some(Big(0, 1)), Some(Big(0, 16)),
               Some(Big(0, 100)), Some(Big(0, 115)), Some(Big(0, 116)),
               Some(Two63), Some(U64Max)}
ScoreMetadata == {None, Some([modified |-> None])}
                   \cup {Some([modified |-> Some(t)]) : t \in {0, 3, 4, 9}}

(***************************************************************************)
(* SpecScore: score_pair applied to one remove/create pair                 *)
(***************************************************************************)
HeurIdle ==
    /\ remove_events = <<>> /\ max_age = 0 /\ now = 0 /\ ret = None
    /\ next_id = 1 /\ paired = <<>>
WatchIdle ==
    fs = <<>> /\ rx = <<>> /\ recently_moved = {} /\ detected = {} /\ printed = None /\ pending = None
CacheIdle == files = <<>> /\ table = <<>> /\ oplog = <<>> /\ staged = None
TreeIdle == entries = <<>> /\ next_key = 0 /\ tret = None /\ batch_keys = <<>>
ScanIdle == stack = <<>> /\ on_batch_calls = <<>> /\ flushes = <<>>
CodecIdle == self_meta = None /\ vec = None /\ decoded = None
LockIdle == mutex = <<>> /\ threads = <<>>
\* the watcher thread is in its event loop, start_watcher has returned, and
\* no lock is poisoned
ThreadIdle ==
    /\ wthread = [pc |-> "loop", watching |-> TRUE]
    /\ ready_ch = [sent |-> 1, taken |-> 1, sender |-> TRUE]
    /\ reported = "Ready"
    /\ poisoned = {}

InitScore ==
    /\ remove \in {FileEvent(p, "Remove", 0, s, m) :
                      p \in {A_T, A_TX, DOT_T}, s \in ScoreSizes, m \in ScoreMetadata}
    /\ create \in {FileEvent(p, "Create", 0, s, m) :
                      p \in ScorePaths, s \in ScoreSizes, m \in {None, Some([modified |-> Some(4)])}}
    /\ score = None /\ CodecIdle /\ LockIdle
    /\ overflow_checks \in BOOLEAN
    /\ ThreadIdle
    /\ HeurIdle /\ WatchIdle /\ CacheIdle /\ TreeIdle /\ ScanIdle

ScorePairCall ==
    /\ score = None
    /\ score' = Some(ScorePair(remove, create, overflow_checks))
    /\ UNCHANGED <<remove, create, overflow_checks, threadVars, treeVars, scanVars, heurVars,
                   watchVars, cacheVars, codecVars, lockVars>>

NextScore == ScorePairCall
SpecScore == InitScore /\ [][NextScore]_vars

(***************************************************************************)
(* Claims on score_pair (SpecScore)                                        *)
(***************************************************************************)
Returned(sc) == IsSome(sc) /\ ~Unwrap(sc).panic
\* |a - b| of two u64 values, as an integer
AbsDiff(a, b) == IF BigLt(a, b) THEN BigSub(b, a) ELSE BigSub(a, b)
SizesKnown == IsSome(remove.size) /\ IsSome(create.size)
NamesRelated ==
    /\ IsSome(FileName(remove.path)) /\ IsSome(FileName(create.path))
    /\ LET rn == Unwrap(FileName(remove.path))
           cn == Unwrap(FileName(create.path))
       IN  rn = cn \/ StartsWith(rn, cn) \/ StartsWith(cn, rn)

\* C6: the score is at least 0.9 for equal non-zero sizes and equal file
\* names, at most 0.2 when the sizes differ by 16 or more, the extensions
\* differ and the file names are neither equal nor prefix-related, and never
\* above 1.0.
C6_ScoreBounds ==
    Returned(score) =>
        LET s == Unwrap(score).v
        IN  /\ s <= 1000
            /\ ( /\ SizesKnown
                 /\ remove.size = create.size
                 /\ BigLt(Big(0, 0), Unwrap(remove.size))
                 /\ IsSome(FileName(remove.path))
                 /\ FileName(remove.path) = FileName(create.path) ) => s >= 900
            /\ ( /\ SizesKnown
                 /\ ~BigLt(AbsDiff(Unwrap(remove.size), Unwrap(create.size)), Big(0, 16))
                 /\ Extension(remove.path) # Extension(create.path)
                 /\ ~NamesRelated ) => s <= 200

MTimesKnown ==
    /\ IsSome(remove.metadata) /\ IsSome(create.metadata)
    /\ IsSome(Unwrap(remove.metadata).modified)
    /\ IsSome(Unwrap(create.metadata).modified)
MTimeGap ==
    LET rmt == Unwrap(Unwrap(remove.metadata).modified)
        cmt == Unwrap(Unwrap(create.metadata).modified)
    IN  IF rmt >= cmt THEN rmt - cmt ELSE cmt - rmt

\* C7: the 0.1 timestamp bonus is added exactly when both modification
\* times are known and less than 2 seconds apart.
C7_TimestampBonus ==
    Returned(score) =>
        ( ScoreAfterTimestamp(0, remove, create) = 100
            <=> (MTimesKnown /\ MTimeGap < 2 * MTimeTicksPerSec) )

\* C8: the size block adds 0.7 exactly when both sizes are known, equal and
\* non-zero, otherwise 0.4 exactly when both are known and less than 16
\* apart, otherwise nothing, for all u64 sizes.
C8_SizeComponent ==
    Returned(score) =>
        ScoreAfterSize(remove, create, overflow_checks).v =
            IF SizesKnown /\ remove.size = create.size
                          /\ BigLt(Big(0, 0), Unwrap(remove.size))
            THEN 700
            ELSE IF SizesKnown
                    /\ BigLt(AbsDiff(Unwrap(remove.size), Unwrap(create.size)), Big(0, 16))
                 THEN 400
                 ELSE 0

(***************************************************************************)
(* MoveHeuristics                                                          *)
(*                                                                         *)
(* A buffered FileEvent carries two bookkeeping fields beside those of the *)
(* struct: id, the order in which add_remove received it (the identity of  *)
(* the object), and added, the clock at that add_remove call.  No          *)
(* operation of the program reads them.                                    *)
(***************************************************************************)
\* prune_old keeping an event whose age equals max_age (mutant of PruneOld)
PruneOldInclusive(buf, t, age) == SelectSeq(buf, LAMBDA e : t - e.time <= age)

\* prune_old, with `t` the Instant::now() it reads
PruneOld(buf, t, age) == SelectSeq(buf, LAMBDA e : t - e.time < age)

MoveCandidate(from, to, s) == [from |-> from, to |-> to, score |-> s]

\* the threshold test as s >= 0.5 (mutant of KeepBetter)
KeepBetterInclusive(best, rm, c, s) ==
    IF s >= F64_0_5
    THEN IF ~IsSome(best) \/ s > Unwrap(best).score
         THEN Some([from |-> rm, to |-> c, score |-> s])
         ELSE best
    ELSE best

\* lines 58-68 for one buffered remove with score s: the new `best`
KeepBetter(best, rm, c, s) ==
    IF s > F64_0_5
    THEN IF ~IsSome(best) \/ s > Unwrap(best).score
         THEN Some(MoveCandidate(rm, c, s))
         ELSE best
    ELSE best

\* lines 51-69: the loop over remove_events from index i on; Panic when a
\* score_pair call panics
RECURSIVE BestFrom(_, _, _, _, _)
BestFrom(buf, c, checks, i, best) ==
    IF i > Len(buf) THEN Val(best)
    ELSE LET s == ScorePair(buf[i], c, checks)
         IN  IF s.panic THEN Panic
             ELSE BestFrom(buf, c, checks, i + 1, KeepBetter(best, buf[i], c, s.v))

\* lines 72-75: the first index whose path equals `path`, 0 for none
Position(buf, path) ==
    IF \E i \in 1..Len(buf) : buf[i].path = path
    THEN CHOOSE i \in 1..Len(buf) :
            buf[i].path = path /\ \A j \in 1..(i - 1) : buf[j].path # path
    ELSE 0

\* VecDeque::remove(pos)
RemoveAt(buf, pos) == SubSeq(buf, 1, pos - 1) \o SubSeq(buf, pos + 1, Len(buf))

\* lines 70-79: the buffer after the paired remove is taken out
RemovePaired(buf, best) ==
    IF IsSome(best) /\ Position(buf, Unwrap(best).from.path) # 0
    THEN RemoveAt(buf, Position(buf, Unwrap(best).from.path))
    ELSE buf

Ids(buf) == {buf[i].id : i \in 1..Len(buf)}

\* add_remove without its prune_old call (mutant of AddRemove)
AddRemoveNoPrune(event, t) ==
    LET ev == [event EXCEPT !.id = next_id, !.added = t]
    IN  /\ remove_events' = Append(remove_events, ev)
        /\ next_id' = next_id + 1
        /\ ret' = Some([op |-> "add_remove", arg |-> ev, now |-> t,
                        before |-> remove_events, panic |-> FALSE,
                        result |-> None])
        /\ UNCHANGED paired

\* add_remove(event) at clock t
AddRemove(event, t) ==
    LET ev == [event EXCEPT !.id = next_id, !.added = t]
    IN  /\ remove_events' = PruneOld(Append(remove_events, ev), t, max_age)
        /\ next_id' = next_id + 1
        /\ ret' = Some([op |-> "add_remove", arg |-> ev, now |-> t,
                        before |-> remove_events, panic |-> FALSE,
                        result |-> None])
        /\ UNCHANGED paired

\* pair_create(create) at clock t
PairCreate(c, t) ==
    LET pruned == PruneOld(remove_events, t, max_age)
        best == BestFrom(pruned, c, overflow_checks, 1, None)
    IN  IF best.panic
        THEN /\ remove_events' = pruned
             /\ ret' = Some([op |-> "pair_create", arg |-> c, now |-> t,
                             before |-> remove_events, panic |-> TRUE,
                             result |-> None])
             /\ paired' = Append(paired, 0)
        ELSE /\ remove_events' = RemovePaired(pruned, best.v)
             /\ ret' = Some([op |-> "pair_create", arg |-> c, now |-> t,
                             before |-> remove_events, panic |-> FALSE,
                             result |-> best.v])
             /\ paired' = Append(paired, IF IsSome(best.v)
                                          THEN Unwrap(best.v).from.id
                                          ELSE 0)

(***************************************************************************)
(* SpecHeur: one MoveHeuristics, its two operations called with events     *)
(* built at or shortly before the call, and the clock                      *)
(***************************************************************************)
MaxRemoves == 2
MaxCreates == 2
MaxTime == 3

Ev(path, kind, time, size) ==
    [path |-> path, kind |-> kind, time |-> time, size |-> size,
     metadata |-> None, id |-> 0, added |-> 0, cached |-> None]

HeurRemoveInputs ==
    {<<A_T, None>>, <<A_T, Some(Big(0, 100))>>, <<B_T, Some(Big(0, 100))>>,
     <<A_TX, Some(Big(0, 108))>>}
HeurCreateInputs ==
    {<<E_A_T, Some(Big(0, 100))>>, <<A_T, None>>}

InitHeur ==
    /\ remove_events = <<>>
    /\ max_age = 2
    /\ now = 0
    /\ ret = None
    /\ next_id = 1
    /\ paired = <<>>
    \* every size below is under 2^63: no subtraction of score_pair
    \* overflows, so both build profiles behave alike
    /\ overflow_checks = FALSE
    /\ ThreadIdle
    /\ remove = None /\ create = None /\ score = None /\ CodecIdle /\ LockIdle
    /\ WatchIdle /\ CacheIdle /\ TreeIdle /\ ScanIdle

\* an event is built by make_file_event at the call or one tick before it
Lags == {d \in {0, 1} : d <= now}

HeurAddRemove ==
    /\ next_id <= MaxRemoves
    /\ \E in \in HeurRemoveInputs, lag \in Lags :
          AddRemove(Ev(in[1], "Remove", now - lag, in[2]), now)
    /\ UNCHANGED <<max_age, now, overflow_checks, threadVars, treeVars, scanVars, scoreVars, codecVars, lockVars,
                   watchVars, cacheVars>>

HeurPairCreate ==
    /\ Len(paired) < MaxCreates
    /\ \E in \in HeurCreateInputs :
          PairCreate(Ev(in[1], "Create", now, in[2]), now)
    /\ UNCHANGED <<max_age, now, next_id, overflow_checks, threadVars, treeVars, scanVars,
                   scoreVars, codecVars, lockVars, watchVars, cacheVars>>

Tick ==
    /\ now < MaxTime
    /\ now' = now + 1
    /\ UNCHANGED <<remove_events, max_age, ret, next_id, paired, overflow_checks, threadVars, treeVars, scanVars,
                   scoreVars, codecVars, lockVars, watchVars, cacheVars>>

NextHeur == HeurAddRemove \/ HeurPairCreate \/ Tick
SpecHeur == InitHeur /\ [][NextHeur]_vars

(***************************************************************************)
(* Claims on MoveHeuristics (SpecHeur)                                     *)
(***************************************************************************)
IsPairCreate(r) == IsSome(r) /\ Unwrap(r).op = "pair_create" /\ ~Unwrap(r).panic
\* the removes of the buffer before call r that are younger than max_age
\* at the call
LiveBefore(r) ==
    {r.before[i] : i \in {j \in 1..Len(r.before) : r.now - r.before[j].time < max_age}}
ScoreOf(e, c) == ScorePair(e, c, overflow_checks).v

\* C1: pair_create returns the highest-scoring delete among the unexpired
\* buffered deletes that score strictly above 0.5, with that score, and
\* returns none exactly when no unexpired buffered delete scores above 0.5.
C1_PairCreateReturnsBest ==
    IsPairCreate(ret) =>
        LET r == Unwrap(ret)
        IN  IF IsSome(r.result)
            THEN LET cand == Unwrap(r.result)
                 IN  /\ cand.from \in LiveBefore(r)
                     /\ cand.to = r.arg
                     /\ cand.score = ScoreOf(cand.from, r.arg)
                     /\ cand.score > 500
                     /\ \A e \in LiveBefore(r) : ScoreOf(e, r.arg) <= cand.score
            ELSE \A e \in LiveBefore(r) : ScoreOf(e, r.arg) <= 500

\* a pair_create that returned the second buffered delete although the first
\* one scored above 0.5 too
C1_Witness ==
    /\ IsPairCreate(ret)
    /\ IsSome(Unwrap(ret).result)
    /\ Len(Unwrap(ret).before) = 2
    /\ Unwrap(Unwrap(ret).result).from = Unwrap(ret).before[2]
    /\ ScoreOf(Unwrap(ret).before[1], Unwrap(ret).arg) > 500

NoDuplicates(seq) ==
    \A i, j \in 1..Len(seq) : (i # j /\ seq[i] # 0) => seq[i] # seq[j]

\* C2: the delete a pair_create returns as `from` is the event removed from
\* the buffer, and no delete is returned by two pair_create calls.
C2_ConsumedAtMostOnce ==
    /\ NoDuplicates(paired)
    /\ (IsPairCreate(ret) /\ IsSome(Unwrap(ret).result)) =>
           Unwrap(Unwrap(ret).result).from.id \notin Ids(remove_events)

\* C3: a delete returned by pair_create was buffered less than max_age
\* before that pair_create call.
C3_NoPairingAfterMaxAge ==
    (IsPairCreate(ret) /\ IsSome(Unwrap(ret).result)) =>
        Unwrap(ret).now - Unwrap(Unwrap(ret).result).from.added < max_age

\* a pair_create whose buffer held a delete added max_age or more ago that
\* scores above 0.5 against the create
C3_Witness ==
    /\ IsPairCreate(ret)
    /\ \E i \in 1..Len(Unwrap(ret).before) :
          /\ Unwrap(ret).now - Unwrap(ret).before[i].added >= max_age
          /\ ScoreOf(Unwrap(ret).before[i], Unwrap(ret).arg) > 500

\* C4: when add_remove or pair_create has returned, every event left in the
\* buffer was younger than max_age at the clock its prune_old read; the
\* buffer changes in these calls only, so an expired event stays until the
\* next call.
C4_BufferYoungAfterCall ==
    IsSome(ret) =>
        \A i \in 1..Len(remove_events) :
            Unwrap(ret).now - remove_events[i].time < max_age

\* a call that found an expired event in the buffer and left a younger one
C4_Witness ==
    /\ IsSome(ret)
    /\ \E i \in 1..Len(Unwrap(ret).before) :
          Unwrap(ret).now - Unwrap(ret).before[i].time >= max_age
    /\ remove_events # <<>>

(***************************************************************************)
(* FileMeta and its redb encoding                                          *)
(*                                                                         *)
(* A character "\xFF" in a name stands for a byte sequence that is not     *)
(* valid UTF-8.                                                            *)
(***************************************************************************)
InvalidUtf8 == "\\xFF"
Replacement == "U+FFFD"
IsUtf8(name) == \A i \in 1..Len(name) : name[i] # InvalidUtf8
PathIsUtf8(path) == \A i \in 1..Len(path) : IsUtf8(path[i])

\* Path::to_string_lossy, per component
LossyName(name) ==
    [i \in 1..Len(name) |-> IF name[i] = InvalidUtf8 THEN Replacement ELSE name[i]]
\* serialize_path: the table key of a path
SerializePath(path) == [i \in 1..Len(path) |-> LossyName(path[i])]

\* the metadata the OS reports for a file
Stat(path) == IF path \in DOMAIN fs THEN Some(fs[path]) ELSE None

\* FileMeta::from_path
FromPath(path) ==
    IF IsSome(Stat(path))
    THEN Some([path |-> path,
               size |-> Unwrap(Stat(path)).size,
               modified |-> Unwrap(Stat(path)).modified,
               created |-> Unwrap(Stat(path)).created,
               extension |-> IF IsSome(Extension(path)) /\ IsUtf8(Unwrap(Extension(path)))
                             THEN Extension(path) ELSE None])
    ELSE None

\* bincode refuses a path that is not UTF-8 and a SystemTime before the
\* epoch (here: a negative time)
Encodable(meta) ==
    /\ PathIsUtf8(meta.path)
    /\ IsSome(meta.modified) => Unwrap(meta.modified) >= 0
    /\ IsSome(meta.created) => Unwrap(meta.created) >= 0

\* FileMeta::serialize: the encoded fields, the empty Vec when encoding fails
Serialize(meta) ==
    IF Encodable(meta)
    THEN <<meta.path, meta.size, meta.modified, meta.created, meta.extension>>
    ELSE <<>>

(***************************************************************************)
(* The redb table and FileCache                                            *)
(*                                                                         *)
(* files: FileCachePath -> FileMeta.  table: None without a database,      *)
(* Some(key -> bytes) with one.  oplog: the effects of the last FileCache  *)
(* call in program order, each <<effect, paths>>.                          *)
(***************************************************************************)
Put(f, k, v) == [x \in DOMAIN f \cup {k} |-> IF x = k THEN v ELSE f[x]]
Del(f, k) == [x \in DOMAIN f \ {k} |-> f[x]]
Keys(paths) == {SerializePath(p) : p \in paths}

\* the outcomes of one write transaction: which call fails, if any
TxnFailures == {"none", "begin_write", "open_table", "commit"}

\* lines 99-103
ToRemove(old, new_files) == {p \in DOMAIN old : p \notin DOMAIN new_files}

\* every path of the new scan (mutant of ToAddOrUpdate)
ToAddOrUpdateAll(old, new_files) == DOMAIN new_files

\* lines 104-118: the paths staged for upsert
ToAddOrUpdate(old, new_files) ==
    {p \in DOMAIN new_files : p \notin DOMAIN old \/ old[p] # new_files[p]}

\* update_redb_batch_commit on table t: the table afterwards.  `bad` are
\* the paths whose table.remove / table.insert returns an error; `winner`
\* names, for each inserted key, the path inserted last under that key.
BatchCommitTable(t, to_remove, upserts, new_files, fail, bad, winner) ==
    IF fail # "none" THEN t
    ELSE LET removed == Keys(to_remove \ bad)
             inserted == Keys(upserts \ bad)
         IN  [k \in (DOMAIN t \ removed) \cup inserted |->
                 IF k \in inserted THEN Serialize(new_files[winner[k]]) ELSE t[k]]

\* update_redb_batch_commit: its effects in order
BatchCommitLog(to_remove, upserts, fail) ==
    IF fail = "begin_write" THEN << <<"begin_write:err", {}>> >>
    ELSE IF fail = "open_table"
         THEN << <<"begin_write", {}>>, <<"open_table:err", {}>> >>
         ELSE << <<"begin_write", {}>>, <<"open_table", {}>>,
                 <<"table.remove", to_remove>>, <<"table.insert", upserts>>,
                 <<IF fail = "commit" THEN "commit:err" ELSE "commit", {}>> >>

\* the in-memory map changed before the database (mutant of DiffLog)
DiffLogMemoryFirst(dblog, to_remove, upserts) ==
    << <<"files.remove", to_remove>>, <<"files.insert", upserts>> >> \o dblog

\* lines 119-127: the effects of diff_and_update in order
DiffLog(dblog, to_remove, upserts) ==
    dblog \o << <<"files.remove", to_remove>>, <<"files.insert", upserts>> >>

\* the functions that name one inserting path per inserted key
Winners(paths) ==
    {w \in [Keys(paths) -> paths] : \A k \in Keys(paths) : SerializePath(w[k]) = k}

\* FileCache::diff_and_update(new_files)
DiffAndUpdate(new_files, fail, bad) ==
    LET to_remove == ToRemove(files, new_files)
        upserts == ToAddOrUpdate(files, new_files)
    IN  /\ \E winner \in Winners(upserts \ bad) :
              table' = IF IsSome(table)
                       THEN Some(BatchCommitTable(Unwrap(table), to_remove, upserts,
                                                  new_files, fail, bad, winner))
                       ELSE None
        /\ files' = [p \in (DOMAIN files \ to_remove) \cup upserts |->
                        IF p \in upserts THEN new_files[p] ELSE files[p]]
        /\ oplog' = DiffLog(IF IsSome(table)
                            THEN BatchCommitLog(to_remove, upserts, fail)
                            ELSE <<>>,
                            to_remove, upserts)
        /\ staged' = Some([old |-> files, new_files |-> new_files,
                           to_remove |-> to_remove,
                           to_add_or_update |-> [p \in upserts |-> new_files[p]]])

(***************************************************************************)
(* SpecDiff: a FileCache, with or without a database, rescanned            *)
(***************************************************************************)
X_FF == <<Dir, <<InvalidUtf8>>>>
DiffPaths == {A_T, B_T, X_FF}
DiffSizes(p) == IF p = A_T THEN {Big(0, 100), Big(0, 200)} ELSE {Big(0, 100)}
Meta(p, size, mtime) ==
    [path |-> p, size |-> size, modified |-> Some(mtime), created |-> Some(0),
     extension |-> IF IsSome(Extension(p)) /\ IsUtf8(Unwrap(Extension(p)))
                   THEN Extension(p) ELSE None]
\* the results a scan_dir_collect can give: each path of the result maps to
\* the FileMeta of that path
Scans ==
    UNION {[S -> UNION {{Meta(p, s, 0) : s \in DiffSizes(p)} : p \in S}] :
              S \in SUBSET DiffPaths}
ScanResults == {f \in Scans : \A p \in DOMAIN f : f[p].path = p}

InitDiff ==
    /\ files = <<>>
    /\ table \in {None, Some(<<>>)}
    /\ oplog = <<>>
    /\ staged = None
    /\ remove = None /\ create = None /\ score = None /\ CodecIdle /\ LockIdle
    /\ overflow_checks = FALSE
    /\ ThreadIdle
    /\ HeurIdle /\ WatchIdle /\ TreeIdle /\ ScanIdle

DiffAndUpdateCall ==
    /\ \E new_files \in ScanResults, fail \in TxnFailures :
          \E bad \in {{}} \cup {{p} : p \in ToRemove(files, new_files)
                                           \cup ToAddOrUpdate(files, new_files)} :
              /\ (~IsSome(table) \/ fail # "none") => bad = {}
              /\ DiffAndUpdate(new_files, fail, bad)
    /\ UNCHANGED <<overflow_checks, threadVars, treeVars, scanVars, scoreVars, codecVars, lockVars, heurVars, watchVars>>

NextDiff == DiffAndUpdateCall
SpecDiff == InitDiff /\ [][NextDiff]_vars

(***************************************************************************)
(* Claims on diff_and_update (SpecDiff)                                    *)
(***************************************************************************)
\* the paths named by the entries of the log whose effect is in `effects`
LogPaths(log, effects) ==
    UNION {log[i][2] : i \in {j \in 1..Len(log) : log[j][1] \in effects}}
LogIndexes(log, effects) == {i \in 1..Len(log) : log[i][1] \in effects}

DbEffects == {"begin_write", "begin_write:err", "open_table", "open_table:err",
              "table.remove", "table.insert", "commit", "commit:err"}
MemoryEffects == {"files.remove", "files.insert"}

\* C9: diff_and_update stages for removal exactly the paths in memory that
\* the new state lacks, stages for upsert exactly the paths of the new state
\* that memory lacks or holds with an unequal record, writes nothing for an
\* unchanged path, and leaves the in-memory map equal to the new state.
C9_DiffStagesExactlyTheDelta ==
    IsSome(staged) =>
        LET st == Unwrap(staged)
            unchanged == {p \in DOMAIN st.new_files :
                             p \in DOMAIN st.old /\ st.old[p] = st.new_files[p]}
        IN  /\ st.to_remove = DOMAIN st.old \ DOMAIN st.new_files
            /\ DOMAIN st.to_add_or_update = DOMAIN st.new_files \ unchanged
            /\ \A p \in DOMAIN st.to_add_or_update :
                   st.to_add_or_update[p] = st.new_files[p]
            /\ LogPaths(oplog, {"table.remove", "table.insert",
                                "files.remove", "files.insert"}) \cap unchanged = {}
            /\ files = st.new_files

\* two scans of the same three files between which only the size of one
\* file changed: one upsert, no removal
C9_Witness ==
    /\ IsSome(staged)
    /\ DOMAIN Unwrap(staged).old = DiffPaths
    /\ DOMAIN Unwrap(staged).new_files = DiffPaths
    /\ Unwrap(staged).old[A_T].size # Unwrap(staged).new_files[A_T].size
    /\ Unwrap(staged).to_remove = {}
    /\ DOMAIN Unwrap(staged).to_add_or_update = {A_T}
    /\ IsSome(table)
    /\ LogPaths(oplog, {"table.insert"}) = {A_T}

SingleTxnLog(effect, path, fail) ==
    IF fail = "begin_write" THEN << <<"begin_write:err", {}>> >>
    ELSE IF fail = "open_table"
         THEN << <<"begin_write", {}>>, <<"open_table:err", {}>> >>
         ELSE << <<"begin_write", {}>>, <<"open_table", {}>>, <<effect, {path}>>,
                 <<IF fail = "commit" THEN "commit:err" ELSE "commit", {}>> >>

\* the entry dropped when the stat fails
UpdateFileFilesDropMissing(fl, path) ==
    IF IsSome(FromPath(path)) THEN Put(fl, path, Unwrap(FromPath(path))) ELSE Del(fl, path)

\* update_file(path): the map, the table and the effects afterwards
UpdateFileFiles(fl, path) ==
    IF IsSome(FromPath(path)) THEN Put(fl, path, Unwrap(FromPath(path))) ELSE fl
\* the row written although the transaction failed
UpdateFileTableDespiteFailure(t, path, fail) ==
    IF IsSome(FromPath(path)) /\ IsSome(t)
    THEN Some(Put(Unwrap(t), SerializePath(path), Serialize(Unwrap(FromPath(path)))))
    ELSE t
UpdateFileTable(t, path, fail) ==
    IF IsSome(FromPath(path)) /\ IsSome(t) /\ fail = "none"
    THEN Some(Put(Unwrap(t), SerializePath(path), Serialize(Unwrap(FromPath(path)))))
    ELSE t
UpdateFileLog(t, path, fail) ==
    IF IsSome(FromPath(path))
    THEN << <<"files.insert", {path}>> >>
         \o (IF IsSome(t) THEN SingleTxnLog("table.insert", path, fail) ELSE <<>>)
    ELSE <<>>

\* remove_file(path)
RemoveFileFiles(fl, path) == Del(fl, path)
RemoveFileTable(t, path, fail) ==
    IF IsSome(t) /\ fail = "none"
    THEN Some(Del(Unwrap(t), SerializePath(path)))
    ELSE t
RemoveFileLog(t, path, fail) ==
    << <<"files.remove", {path}>> >>
    \o (IF IsSome(t) THEN SingleTxnLog("table.remove", path, fail) ELSE <<>>)

\* get(path)
Get(fl, path) == IF path \in DOMAIN fl THEN Some(fl[path]) ELSE None

(***************************************************************************)
(* The watcher thread                                                      *)
(***************************************************************************)
\* make_file_event(path, kind) at clock t: the file is stat-ed when the
\* event is built.  `cached` is bookkeeping: the `meta` the handler read
\* from the cache and passed along at the call.
MakeFileEvent(path, kind, t, cached) ==
    [path |-> path, kind |-> kind, time |-> t,
     size |-> IF IsSome(Stat(path)) THEN Some(Unwrap(Stat(path)).size) ELSE None,
     metadata |-> IF IsSome(Stat(path))
                  THEN Some([modified |-> Unwrap(Stat(path)).modified])
                  ELSE None,
     id |-> 0, added |-> 0, cached |-> cached]

DebouncedEvent(kind, paths) == [kind |-> kind, paths |-> paths]

\* transactions of the watcher either succeed or fail at commit
WatchTxnFailures == {"none", "commit"}

\* handle_remove_event
HandleRemove ==
    /\ pending = None
    /\ rx # <<>>
    /\ Head(rx).kind = "Remove"
    /\ rx' = Tail(rx)
    /\ LET path == Head(rx).paths[1]
           meta == Get(files, path)
       IN  /\ AddRemove(MakeFileEvent(path, "Remove", now, meta), now)
           /\ \E fail \in WatchTxnFailures :
                 /\ ~IsSome(table) => fail = "none"
                 /\ files' = RemoveFileFiles(files, path)
                 /\ table' = RemoveFileTable(table, path, fail)
                 /\ oplog' = RemoveFileLog(table, path, fail)
           /\ printed' = None
    /\ UNCHANGED <<fs, recently_moved, detected, pending, staged, max_age, now, overflow_checks, threadVars,
                   treeVars, scanVars, scoreVars, codecVars, lockVars>>

\* handle_create_event, first lock: update_file(path).  The lock is released
\* before the handler goes on; `pending` is the path the handler holds.
HandleCreateUpdate ==
    /\ pending = None
    /\ rx # <<>>
    /\ Head(rx).kind = "Create"
    /\ rx' = Tail(rx)
    /\ LET path == Head(rx).paths[1]
       IN  /\ \E fail \in WatchTxnFailures :
                 /\ (~IsSome(table) \/ ~IsSome(FromPath(path))) => fail = "none"
                 /\ files' = UpdateFileFiles(files, path)
                 /\ table' = UpdateFileTable(table, path, fail)
                 /\ oplog' = UpdateFileLog(table, path, fail)
           /\ pending' = Some(path)
    /\ UNCHANGED <<fs, recently_moved, detected, printed, staged, heurVars, overflow_checks, threadVars,
                   treeVars, scanVars, scoreVars, codecVars, lockVars>>

\* handle_create_event, from the second lock on: get(path), make_file_event,
\* pair_create, and the report
HandleCreatePair ==
    /\ IsSome(pending)
    /\ LET path == Unwrap(pending)
           meta == Get(files, path)
           file_event == MakeFileEvent(path, "Create", now, meta)
       IN  /\ PairCreate(file_event, now)
           /\ LET pair == Unwrap(ret').result
              IN  IF ~Unwrap(ret').panic /\ IsSome(pair)
                  THEN /\ printed' = Some([kind |-> "move",
                                           from |-> Unwrap(pair).from.path,
                                           to |-> Unwrap(pair).to.path])
                       /\ recently_moved' = recently_moved \cup {Unwrap(pair).to.path}
                       /\ detected' = detected \cup {Unwrap(pair).to.path}
                  ELSE /\ printed' = Some([kind |-> "create", from |-> path, to |-> path])
                       /\ UNCHANGED <<recently_moved, detected>>
    /\ pending' = None
    /\ UNCHANGED <<fs, rx, cacheVars, max_age, now, next_id, overflow_checks, threadVars,
                   treeVars, scanVars, scoreVars, codecVars, lockVars>>

(***************************************************************************)
(* SpecWatch: the watcher over a directory whose files are created,        *)
(* removed and moved, after the startup scan has filled the cache          *)
(***************************************************************************)
MaxAgeSecs == 5
MaxEvents == 3
MaxWatchTime == 8

WatchPaths == {A_T, B_T}
WatchSizes == {Big(0, 0), Big(0, 100)}
File(size, mtime) == [size |-> size, modified |-> Some(mtime), created |-> Some(0)]

EventCount == (next_id - 1) + Len(paired) + Len(rx) + Len(pending)

InitWatch ==
    /\ fs = [p \in {A_T} |-> File(Big(0, 100), 0)]
    /\ rx = <<>>
    /\ recently_moved = {}
    /\ detected = {}
    /\ printed = None
    \* the cache after the startup scan of fs
    /\ files = [p \in {A_T} |-> Meta(A_T, Big(0, 100), 0)]
    /\ table = Some([k \in {SerializePath(A_T)} |-> Serialize(Meta(A_T, Big(0, 100), 0))])
    /\ oplog = <<>>
    /\ staged = None
    /\ remove_events = <<>>
    /\ max_age = MaxAgeSecs
    /\ now = 0
    /\ ret = None
    /\ next_id = 1
    /\ paired = <<>>
    /\ overflow_checks = FALSE
    /\ ThreadIdle
    /\ remove = None /\ create = None /\ score = None /\ CodecIdle /\ LockIdle
    /\ pending = None
    /\ TreeIdle /\ ScanIdle

\* the directory: a file is removed, created, or moved; the debouncer
\* delivers a Remove, a Create, or a Remove followed by a Create
OsRemove ==
    /\ EventCount < MaxEvents
    /\ \E p \in DOMAIN fs :
          /\ fs' = Del(fs, p)
          /\ rx' = Append(rx, DebouncedEvent("Remove", <<p>>))
    /\ UNCHANGED <<recently_moved, detected, printed, pending, cacheVars, heurVars, overflow_checks, threadVars,
                   treeVars, scanVars, scoreVars, codecVars, lockVars>>

OsCreate ==
    /\ EventCount < MaxEvents
    /\ \E p \in WatchPaths \ DOMAIN fs, size \in WatchSizes :
          /\ fs' = Put(fs, p, File(size, now * MTimeTicksPerSec))
          /\ rx' = Append(rx, DebouncedEvent("Create", <<p>>))
    /\ UNCHANGED <<recently_moved, detected, printed, pending, cacheVars, heurVars, overflow_checks, threadVars,
                   treeVars, scanVars, scoreVars, codecVars, lockVars>>

OsMove ==
    /\ EventCount + 1 < MaxEvents
    /\ \E p \in DOMAIN fs, q \in WatchPaths \ DOMAIN fs :
          /\ fs' = Put(Del(fs, p), q, fs[p])
          /\ rx' = rx \o <<DebouncedEvent("Remove", <<p>>), DebouncedEvent("Create", <<q>>)>>
    /\ UNCHANGED <<recently_moved, detected, printed, pending, cacheVars, heurVars, overflow_checks, threadVars,
                   treeVars, scanVars, scoreVars, codecVars, lockVars>>

\* the clock is read every max_age - 1 seconds: an event buffered at one
\* reading is still young at the next and too old at the one after
WatchTick ==
    /\ now + (MaxAgeSecs - 1) <= MaxWatchTime
    /\ now' = now + (MaxAgeSecs - 1)
    /\ UNCHANGED <<remove_events, max_age, ret, next_id, paired, overflow_checks, threadVars, treeVars, scanVars,
                   scoreVars, codecVars, lockVars, watchVars, cacheVars>>

NextWatch ==
    \/ OsRemove \/ OsCreate \/ OsMove \/ WatchTick
    \/ HandleRemove \/ HandleCreateUpdate \/ HandleCreatePair
SpecWatch == InitWatch /\ [][NextWatch]_vars

(***************************************************************************)
(* Claims on the dispatcher (SpecWatch)                                    *)
(***************************************************************************)
\* the last event handled was a Create, handled by handle_create_event
CreateHandled == IsSome(printed) /\ IsPairCreate(ret)

\* the buffered removes of a file that the cache knew, that the created
\* file can be the moved form of: buffered less than max_age before the
\* Create is handled, same non-zero size, same extension, modification
\* times less than 2 seconds apart
MovedFrom(r) ==
    {e \in LiveBefore(r) :
        /\ IsSome(e.cached)
        /\ IsSome(r.arg.size)
        /\ Unwrap(e.cached).size = Unwrap(r.arg.size)
        /\ Unwrap(r.arg.size) # Big(0, 0)
        /\ Extension(e.path) = Extension(r.arg.path)
        /\ IsSome(Unwrap(e.cached).modified)
        /\ IsSome(r.arg.metadata)
        /\ IsSome(Unwrap(r.arg.metadata).modified)
        /\ LET rmt == Unwrap(Unwrap(e.cached).modified)
               cmt == Unwrap(Unwrap(r.arg.metadata).modified)
           IN  /\ rmt - cmt < TimestampLimitSecs * MTimeTicksPerSec
               /\ cmt - rmt < TimestampLimitSecs * MTimeTicksPerSec}

\* C5: when a Remove of a cached file P is followed, less than max_age
\* later, by a Create of Q with the same non-zero size, the same extension
\* and a modification time within 2 seconds, the dispatcher reports a move
\* from P to Q and not a plain Create of Q.
C5_RemoveThenCreateIsMove ==
    (CreateHandled /\ MovedFrom(Unwrap(ret)) # {}) =>
        /\ Unwrap(printed).kind = "move"
        /\ Unwrap(printed).to = Unwrap(ret).arg.path
        /\ \E e \in MovedFrom(Unwrap(ret)) : Unwrap(printed).from = e.path

\* the last event handled was a Remove, handled by handle_remove_event
RemoveHandled == IsSome(ret) /\ Unwrap(ret).op = "add_remove" /\ pending = None

\* the size and modification time an event carries are those of record meta
Carries(ev, meta) ==
    /\ ev.size = Some(meta.size)
    /\ ev.metadata = Some([modified |-> meta.modified])

\* C18: for every Remove event the dispatcher snapshots the cache before
\* removing the path, hands the FileEvent to add_remove and only then
\* removes the path; the buffered event carries the metadata the cache held
\* for the path when the event was handled.
C18_RemoveEventCarriesCachedMetadata ==
    RemoveHandled =>
        LET ev == Unwrap(ret).arg
        IN  /\ ev.path \notin DOMAIN files
            /\ oplog # <<>> /\ oplog[1] = <<"files.remove", {ev.path}>>
            /\ IsSome(ev.cached) => Carries(ev, Unwrap(ev.cached))

\* C19: for every Create event the cache is updated for the path before it
\* is snapshotted, and the FileEvent handed to pair_create carries the
\* metadata stored by that update.  (Nothing but the handler writes the
\* cache here, so the snapshot `cached` is the record the update stored.)
C19_CreateEventCarriesUpdatedMetadata ==
    CreateHandled =>
        LET ev == Unwrap(ret).arg
        IN  IsSome(ev.cached) => Carries(ev, Unwrap(ev.cached))

(***************************************************************************)
(* The path tree: a map from entry id to {name, parent, kind}.  The calls  *)
(* on the cache are serialised by the Mutex the cache is shared under.     *)
(***************************************************************************)
RootKey == 0
DirectoryKind == [file |-> None]
FileKind(record) == [file |-> Some(record)]
Entry(name, parent, kind) == [name |-> name, parent |-> parent, kind |-> kind]

\* new_root(name)
NewRoot(name) == [k \in {RootKey} |-> Entry(name, None, DirectoryKind)]

\* sibling lookup by name: the key of (parent, name), when there is one
FindChild(ents, parent, name) ==
    LET found == {k \in DOMAIN ents : ents[k].parent = Some(parent) /\ ents[k].name = name}
    IN  IF found = {} THEN None
        ELSE Some(CHOOSE k \in found : \A j \in found : k <= j)

\* insert of (parent, name) with `kind` where the lookup always misses
\* (mutant of Upsert)
UpsertNoLookup(ents, next, name, parent, kind) ==
    [entries |-> Put(ents, next, Entry(name, Some(parent), kind)),
     next |-> next + 1, id |-> next]

\* insert of (parent, name) with `kind`: an existing entry keeps its id and
\* gets the kind, otherwise a new id is allocated
Upsert(ents, next, name, parent, kind) ==
    LET found == FindChild(ents, parent, name)
    IN  IF IsSome(found)
        THEN [entries |-> [ents EXCEPT ![Unwrap(found)].kind = kind],
              next |-> next, id |-> Unwrap(found)]
        ELSE [entries |-> Put(ents, next, Entry(name, Some(parent), kind)),
              next |-> next + 1, id |-> next]

\* update_or_insert_file(name, parent, record)
UpdateOrInsertFile(ents, next, name, parent, record) ==
    Upsert(ents, next, name, parent, FileKind(record))

\* add_dir(name, parent)
AddDir(ents, next, name, parent) == Upsert(ents, next, name, parent, DirectoryKind)

\* the keys of the subtree rooted at the keys of `roots`
RECURSIVE Subtree(_, _)
Subtree(ents, roots) ==
    LET more == roots \cup {k \in DOMAIN ents : IsSome(ents[k].parent)
                                                 /\ Unwrap(ents[k].parent) \in roots}
    IN  IF more = roots THEN roots ELSE Subtree(ents, more)

\* remove_entry(id): deletes the subtree rooted at id
RemoveEntry(ents, id) == [k \in DOMAIN ents \ Subtree(ents, {id}) |-> ents[k]]

\* entries.remove(key) for each key of the flushed batch
Evict(ents, keys) == [k \in DOMAIN ents \ {keys[i] : i \in 1..Len(keys)} |-> ents[k]]

\* find_entry_by_path: the walk from `cur` along the components
RECURSIVE Walk(_, _, _)
Walk(ents, cur, comps) ==
    IF comps = <<>> THEN Some(cur)
    ELSE LET found == FindChild(ents, cur, Head(comps))
         IN  IF IsSome(found) THEN Walk(ents, Unwrap(found), Tail(comps)) ELSE None

\* the components below the root: the first one is consumed when it is
\* the root's name
BelowRoot(ents, path) ==
    IF path # <<>> /\ RootKey \in DOMAIN ents /\ path[1] = ents[RootKey].name
    THEN Tail(path) ELSE path

FindEntryByPath(ents, path) ==
    IF RootKey \in DOMAIN ents THEN Walk(ents, RootKey, BelowRoot(ents, path)) ELSE None

\* update_file(path): the missing intermediate directories are created,
\* then the terminal File entry is inserted or updated
RECURSIVE InsertAlong(_, _, _, _, _)
InsertAlong(ents, next, cur, comps, record) ==
    IF Len(comps) = 1
    THEN UpdateOrInsertFile(ents, next, comps[1], cur, record)
    ELSE LET found == FindChild(ents, cur, Head(comps))
             dir == IF IsSome(found)
                    THEN [entries |-> ents, next |-> next, id |-> Unwrap(found)]
                    ELSE AddDir(ents, next, Head(comps), cur)
         IN  InsertAlong(dir.entries, dir.next, dir.id, Tail(comps), record)

TreeUpdateFile(ents, next, path) ==
    IF IsSome(FromPath(path)) /\ BelowRoot(ents, path) # <<>>
    THEN InsertAlong(ents, next, RootKey, BelowRoot(ents, path), Unwrap(FromPath(path)))
    ELSE [entries |-> ents, next |-> next, id |-> RootKey]

\* remove_file(path)
TreeRemoveFile(ents, path) ==
    IF IsSome(FindEntryByPath(ents, path)) /\ Unwrap(FindEntryByPath(ents, path)) # RootKey
    THEN RemoveEntry(ents, Unwrap(FindEntryByPath(ents, path)))
    ELSE ents

(***************************************************************************)
(* SpecTree: the calls on the path tree, by the dispatcher (update_file,   *)
(* remove_file, remove_entry) and by streaming scans (update_or_insert_file,*)
(* add_dir, eviction of the flushed keys), over a directory that changes   *)
(***************************************************************************)
MaxKeys == 3
MaxBatchKeys == 1

X == <<"x">>
Y == <<"y">>
TreeNames == {X, Y}
X_Y == <<Dir, X, Y>>
TreePaths == {<<Dir, X>>, X_Y}
TreeRecords == {Meta(<<Dir, X>>, Big(0, 100), 0), Meta(<<Dir, X>>, Big(0, 108), 0)}
\* the directory holds nothing, the file d/x, or the file d/x/y
TreeFileSystems ==
    {<<>>} \cup {[p \in {q} |-> File(Big(0, 100), 0)] : q \in TreePaths}

\* the keys a scan uses as parent_key: the root and the keys add_dir gave
Directories(ents) == {k \in DOMAIN ents : ents[k].kind = DirectoryKind}

TreeCall(op, name, parent, record, id) ==
    Some([op |-> op, name |-> name, parent |-> parent, record |-> record, id |-> id,
          before |-> entries])

InitTree ==
    /\ entries = NewRoot(Dir)
    /\ next_key = 1
    /\ tret = None
    /\ batch_keys = <<>>
    /\ fs = <<>>
    /\ rx = <<>> /\ recently_moved = {} /\ detected = {} /\ printed = None /\ pending = None
    /\ remove = None /\ create = None /\ score = None /\ CodecIdle /\ LockIdle
    /\ overflow_checks = FALSE
    /\ ThreadIdle
    /\ HeurIdle /\ CacheIdle /\ ScanIdle

TreeUnchanged ==
    UNCHANGED <<rx, recently_moved, detected, printed, pending, overflow_checks, threadVars, scoreVars, codecVars, lockVars,
                heurVars, cacheVars, scanVars>>

\* the scan inserts a file: update_or_insert_file, the key joins the batch
ScanInsertFile ==
    /\ Len(batch_keys) < MaxBatchKeys
    /\ \E name \in TreeNames, parent \in Directories(entries), record \in TreeRecords :
          LET r == UpdateOrInsertFile(entries, next_key, name, parent, record)
          IN  /\ r.next <= MaxKeys
              /\ entries' = r.entries
              /\ next_key' = r.next
              /\ batch_keys' = Append(batch_keys, r.id)
              /\ tret' = TreeCall("update_or_insert_file", name, parent, Some(record), r.id)
    /\ UNCHANGED fs
    /\ TreeUnchanged

\* the scan enters a subdirectory, after the last flush of its level: add_dir
ScanAddDir ==
    /\ batch_keys = <<>>
    /\ \E name \in TreeNames, parent \in Directories(entries) :
          LET r == AddDir(entries, next_key, name, parent)
          IN  /\ r.next <= MaxKeys
              /\ entries' = r.entries
              /\ next_key' = r.next
              /\ tret' = TreeCall("add_dir", name, parent, None, r.id)
    /\ UNCHANGED <<fs, batch_keys>>
    /\ TreeUnchanged

\* the scan has flushed its batch: the keys of the batch are evicted
ScanEvict ==
    /\ batch_keys # <<>>
    /\ entries' = Evict(entries, batch_keys)
    /\ batch_keys' = <<>>
    /\ tret' = TreeCall("evict", <<>>, RootKey, None, RootKey)
    /\ UNCHANGED <<fs, next_key>>
    /\ TreeUnchanged

\* the dispatcher handles a Create: update_file(path).  The scan thread
\* holds the cache's lock from its first insert to its last eviction, so the
\* dispatcher's calls fall between scans.
DispatcherUpdateFile ==
    /\ batch_keys = <<>>
    /\ \E path \in TreePaths :
          LET r == TreeUpdateFile(entries, next_key, path)
          IN  /\ r.next <= MaxKeys
              /\ entries' = r.entries
              /\ next_key' = r.next
              /\ tret' = TreeCall("update_file", path, RootKey, FromPath(path), r.id)
    /\ UNCHANGED <<fs, batch_keys>>
    /\ TreeUnchanged

\* the dispatcher handles a Remove: remove_file(path)
DispatcherRemoveFile ==
    /\ batch_keys = <<>>
    /\ \E path \in TreePaths :
          /\ entries' = TreeRemoveFile(entries, path)
          /\ tret' = TreeCall("remove_file", path, RootKey, None,
                              IF IsSome(FindEntryByPath(entries, path))
                              THEN Unwrap(FindEntryByPath(entries, path)) ELSE RootKey)
    /\ UNCHANGED <<fs, next_key, batch_keys>>
    /\ TreeUnchanged

\* remove_entry(id)
RemoveEntryCall ==
    /\ batch_keys = <<>>
    /\ \E id \in DOMAIN entries \ {RootKey} :
          /\ entries' = RemoveEntry(entries, id)
          /\ tret' = TreeCall("remove_entry", <<>>, RootKey, None, id)
    /\ UNCHANGED <<fs, next_key, batch_keys>>
    /\ TreeUnchanged

\* the directory changes
TreeFsChange ==
    /\ fs' \in TreeFileSystems \ {fs}
    /\ UNCHANGED treeVars
    /\ TreeUnchanged

NextTree ==
    \/ ScanInsertFile \/ ScanAddDir \/ ScanEvict
    \/ DispatcherUpdateFile \/ DispatcherRemoveFile \/ RemoveEntryCall
    \/ TreeFsChange
SpecTree == InitTree /\ [][NextTree]_vars

(***************************************************************************)
(* Claims on the path tree (SpecTree)                                      *)
(***************************************************************************)
\* the entry reached from key k after n steps up the parent chain, None
\* when a parent id is missing from the map
RECURSIVE Ancestor(_, _, _)
Ancestor(ents, k, n) ==
    IF k \notin DOMAIN ents THEN None
    ELSE IF n = 0 \/ ~IsSome(ents[k].parent) THEN Some(k)
         ELSE Ancestor(ents, Unwrap(ents[k].parent), n - 1)

ReachesRoot(ents, k) == Ancestor(ents, k, Cardinality(DOMAIN ents)) = Some(RootKey)

\* C11: every non-root entry's parent chain reaches the root: no cycle and
\* no parent id missing from the map.
C11_ParentChainsReachRoot ==
    \A k \in DOMAIN entries : ReachesRoot(entries, k)

\* C12: (parent, name) is unique among the entries, and update_or_insert_file
\* for an existing (parent, name) returns the existing id with the record
\* stored in place, so a second call with the same arguments returns the
\* same id and leaves the same record.
C12_ParentNameUnique ==
    /\ \A j, k \in DOMAIN entries :
          (entries[j].parent = entries[k].parent /\ entries[j].name = entries[k].name) => j = k
    /\ (IsSome(tret) /\ Unwrap(tret).op = "update_or_insert_file") =>
          LET c == Unwrap(tret)
              again == UpdateOrInsertFile(entries, next_key, c.name, c.parent,
                                          Unwrap(c.record))
          IN  /\ entries[c.id] = Entry(c.name, Some(c.parent), FileKind(Unwrap(c.record)))
              /\ IsSome(FindChild(c.before, c.parent, c.name)) =>
                     c.id = Unwrap(FindChild(c.before, c.parent, c.name))
              /\ again.id = c.id
              /\ again.entries = entries

\* an update_or_insert_file for a (parent, name) that was there with another
\* record
C12_Witness ==
    /\ IsSome(tret) /\ Unwrap(tret).op = "update_or_insert_file"
    /\ LET c == Unwrap(tret)
       IN  /\ IsSome(FindChild(c.before, c.parent, c.name))
           /\ c.before[c.id].kind # FileKind(Unwrap(c.record))
           /\ c.before[c.id].kind # DirectoryKind

(***************************************************************************)
(* SpecCache: update_file and remove_file of the FileCache, called with    *)
(* the paths of files and of directories, over a directory that changes    *)
(***************************************************************************)
\* what fs::metadata gives for a directory
DirNode(mtime) ==
    [size |-> Big(0, 0), modified |-> Some(mtime), created |-> Some(0), dir |-> TRUE]
IsDir(path) == path \in DOMAIN fs /\ "dir" \in DOMAIN fs[path]

\* the directory holds nothing, the file d/x, or the directory d/x with
\* the file d/x/y
CacheFileSystems ==
    {<<>>,
     [p \in {<<Dir, X>>} |-> File(Big(0, 100), 0)],
     [p \in {<<Dir, X>>, X_Y} |-> IF p = X_Y THEN File(Big(0, 100), 0) ELSE DirNode(0)]}

InitCache ==
    /\ fs = <<>>
    /\ files = <<>>
    /\ table = Some(<<>>)
    /\ oplog = <<>>
    /\ staged = None
    /\ rx = <<>> /\ recently_moved = {} /\ detected = {} /\ printed = None /\ pending = None
    /\ remove = None /\ create = None /\ score = None /\ CodecIdle /\ LockIdle
    /\ overflow_checks = FALSE
    /\ ThreadIdle
    /\ HeurIdle /\ TreeIdle /\ ScanIdle

CacheUnchanged ==
    UNCHANGED <<rx, recently_moved, detected, printed, pending, overflow_checks, threadVars, scoreVars, codecVars, lockVars,
                heurVars, treeVars, scanVars>>

UpdateFileCall ==
    /\ \E path \in TreePaths, fail \in TxnFailures :
          /\ ~IsSome(FromPath(path)) => fail = "none"
          /\ files' = UpdateFileFiles(files, path)
          /\ table' = UpdateFileTable(table, path, fail)
          /\ oplog' = <<<<"update_file", {path}>>>> \o UpdateFileLog(table, path, fail)
    /\ UNCHANGED <<fs, staged>>
    /\ CacheUnchanged

RemoveFileCall ==
    /\ \E path \in TreePaths, fail \in TxnFailures :
          /\ files' = RemoveFileFiles(files, path)
          /\ table' = RemoveFileTable(table, path, fail)
          /\ oplog' = <<<<"remove_file", {path}>>>> \o RemoveFileLog(table, path, fail)
    /\ UNCHANGED <<fs, staged>>
    /\ CacheUnchanged

CacheFsChange ==
    /\ fs' \in CacheFileSystems \ {fs}
    /\ UNCHANGED cacheVars
    /\ CacheUnchanged

NextCache == UpdateFileCall \/ RemoveFileCall \/ CacheFsChange
SpecCache == InitCache /\ [][NextCache]_vars

(***************************************************************************)
(* Claims on remove_file (SpecCache)                                       *)
(***************************************************************************)
\* path q lies beneath path p
Beneath(p, q) == Len(p) < Len(q) /\ SubSeq(q, 1, Len(p)) = p

\* C13: after remove_file(P) the cache holds neither an entry for P nor an
\* entry for a path beneath P.
C13_RemoveDeletesSubtree ==
    (oplog # <<>> /\ oplog[1][1] = "remove_file") =>
        \A P \in oplog[1][2] :
            \A q \in DOMAIN files : q # P /\ ~Beneath(P, q)

(***************************************************************************)
(* scan_dir_sequential_streaming                                           *)
(*                                                                         *)
(* stack: the frames of the recursion, the running call last.  A frame     *)
(* holds the call's locals.  tret holds the arguments shared by all        *)
(* frames (batch_size, ignore) and the entry count before the scan.        *)
(***************************************************************************)
\* fs::read_dir(dir): the children of dir
ReadDir(dir) == {p \in DOMAIN fs : Len(p) = Len(dir) + 1 /\ SubSeq(p, 1, Len(dir)) = dir}
\* the orders read_dir may list them in
Orders(S) == {q \in [1..Cardinality(S) -> S] : \A i, j \in DOMAIN q : i # j => q[i] # q[j]}

Frame(dir, parent_key, dir_entries, on_batch) ==
    [dir |-> dir, parent_key |-> parent_key, entries |-> dir_entries,
     phase |-> "files", i |-> 1, batch |-> <<>>, batch_keys |-> <<>>,
     batch_count |-> 0, on_batch |-> on_batch]

Top == stack[Len(stack)]
SetTop(frame) == [stack EXCEPT ![Len(stack)] = frame]
IsIgnored(path) == path \in Unwrap(tret).ignore

\* the inserts of update_redb_batch_commit, in the order of the batch
RECURSIVE InsertAll(_, _)
InsertAll(t, batch) ==
    IF batch = <<>> THEN t
    ELSE InsertAll(Put(t, SerializePath(Head(batch)[1]), Serialize(Head(batch)[2])),
                   Tail(batch))

\* a commit that leaves out the last pair of the batch (mutant of ScanCommit)
ScanCommitDropLast(t, batch, fail) ==
    IF fail = "none" THEN Some(InsertAll(Unwrap(t), SubSeq(batch, 1, Len(batch) - 1))) ELSE t

\* update_redb_batch_commit(db, &[], &batch)
ScanCommit(t, batch, fail) ==
    IF fail = "none" THEN Some(InsertAll(Unwrap(t), batch)) ELSE t

\* a flush that hands on_batch the count before its increment (mutant of
\* Flush)
FlushStaleCount(frame, fail) ==
    /\ table' = ScanCommit(table, frame.batch, fail)
    /\ flushes' = Append(flushes, [batch |-> frame.batch, fail |-> fail, depth |-> Len(stack)])
    /\ entries' = Evict(entries, frame.batch_keys)
    /\ on_batch_calls' = IF frame.on_batch
                         THEN Append(on_batch_calls, frame.batch_count)
                         ELSE on_batch_calls

\* lines 46-55 and 60-67: commit the batch, evict its keys, count it, call
\* on_batch
Flush(frame, fail) ==
    /\ table' = ScanCommit(table, frame.batch, fail)
    /\ flushes' = Append(flushes, [batch |-> frame.batch, fail |-> fail, depth |-> Len(stack)])
    /\ entries' = Evict(entries, frame.batch_keys)
    /\ on_batch_calls' = IF frame.on_batch
                         THEN Append(on_batch_calls, frame.batch_count + 1)
                         ELSE on_batch_calls

ScanUnchanged ==
    UNCHANGED <<fs, rx, recently_moved, detected, printed, pending, overflow_checks, threadVars, scoreVars, codecVars, lockVars,
                heurVars, files, staged, tret, batch_keys>>

\* the calls that stat the path of one entry of the first loop: is_dir,
\* then is_ignored (which asks is_dir again, ignore.rs:66), then from_path
StatCallsOfFile(path) ==
    <<<<"is_dir", {path}>>>>
    \o (IF IsDir(path) THEN <<>> ELSE <<<<"is_ignored", {path}>>>>)
    \o (IF IsDir(path) \/ IsIgnored(path) \/ ~IsSome(FileName(path))
        THEN <<>> ELSE <<<<"from_path", {path}>>>>)

\* the same for one entry of the second loop: is_dir, then the is_ignored
\* of the recursive call (line 22)
StatCallsOfSubdir(path) ==
    <<<<"is_dir", {path}>>>>
    \o (IF ~IsDir(path) \/ ~IsSome(FileName(path))
        THEN <<>> ELSE <<<<"is_ignored", {path}>>>>)

\* lines 32-45: one entry of the first loop
ScanFile ==
    /\ stack # <<>>
    /\ Top.phase = "files"
    /\ Top.i <= Len(Top.entries)
    /\ LET path == Top.entries[Top.i]
       IN  IF \/ IsDir(path) \/ IsIgnored(path)
              \/ ~IsSome(FileName(path)) \/ ~IsSome(FromPath(path))
           THEN /\ stack' = SetTop([Top EXCEPT !.i = @ + 1])
                /\ UNCHANGED <<entries, next_key>>
           ELSE LET meta == Unwrap(FromPath(path))
                    r == UpdateOrInsertFile(entries, next_key,
                                            LossyName(Unwrap(FileName(path))),
                                            Top.parent_key, meta)
                    batch == Append(Top.batch, <<meta.path, meta>>)
                IN  /\ entries' = r.entries
                    /\ next_key' = r.next
                    /\ stack' = SetTop([Top EXCEPT
                                           !.i = @ + 1,
                                           !.batch = batch,
                                           !.batch_keys = Append(@, r.id),
                                           !.phase = IF Len(batch) >= Unwrap(tret).batch_size
                                                     THEN "flush" ELSE "files"])
    /\ oplog' = oplog \o StatCallsOfFile(Top.entries[Top.i])
    /\ UNCHANGED <<table, on_batch_calls, flushes>>
    /\ ScanUnchanged

\* lines 45-56: the batch has reached batch_size
ScanFlush ==
    /\ stack # <<>>
    /\ Top.phase = "flush"
    /\ \E fail \in WatchTxnFailures : Flush(Top, fail)
    /\ stack' = SetTop([Top EXCEPT !.phase = "files", !.batch = <<>>, !.batch_keys = <<>>,
                                   !.batch_count = @ + 1])
    /\ UNCHANGED <<next_key, oplog>>
    /\ ScanUnchanged

\* lines 59-68: after the first loop, the rest of the batch
ScanLastFlush ==
    /\ stack # <<>>
    /\ Top.phase = "files"
    /\ Top.i > Len(Top.entries)
    /\ IF Top.batch # <<>>
       THEN /\ \E fail \in WatchTxnFailures : Flush(Top, fail)
            /\ stack' = SetTop([Top EXCEPT !.phase = "subdirs", !.i = 1,
                                           !.batch_count = @ + 1])
       ELSE /\ stack' = SetTop([Top EXCEPT !.phase = "subdirs", !.i = 1])
            /\ UNCHANGED <<table, flushes, entries, on_batch_calls>>
    /\ UNCHANGED <<next_key, oplog>>
    /\ ScanUnchanged

\* lines 70-89: one entry of the second loop; a subdirectory gets its entry
\* and is scanned by a recursive call with on_batch None
ScanSubdir ==
    /\ stack # <<>>
    /\ Top.phase = "subdirs"
    /\ Top.i <= Len(Top.entries)
    /\ LET path == Top.entries[Top.i]
           caller == SetTop([Top EXCEPT !.i = @ + 1])
       IN  IF ~IsDir(path) \/ ~IsSome(FileName(path))
           THEN /\ stack' = caller
                /\ UNCHANGED <<entries, next_key>>
           ELSE LET r == AddDir(entries, next_key, LossyName(Unwrap(FileName(path))),
                                Top.parent_key)
                IN  /\ entries' = r.entries
                    /\ next_key' = r.next
                    /\ IF IsIgnored(path)
                       THEN stack' = caller
                       ELSE \E order \in Orders(ReadDir(path)) :
                               stack' = Append(caller, Frame(path, r.id, order, FALSE))
    /\ oplog' = oplog \o StatCallsOfSubdir(Top.entries[Top.i])
    /\ UNCHANGED <<table, on_batch_calls, flushes>>
    /\ ScanUnchanged

\* the call returns
ScanReturn ==
    /\ stack # <<>>
    /\ Top.phase = "subdirs"
    /\ Top.i > Len(Top.entries)
    /\ stack' = SubSeq(stack, 1, Len(stack) - 1)
    /\ UNCHANGED <<entries, next_key, table, on_batch_calls, flushes, oplog>>
    /\ ScanUnchanged

(***************************************************************************)
(* SpecScan: one streaming scan of the directory d, against an empty       *)
(* table, with a cache that holds the root and possibly an entry the       *)
(* dispatcher has inserted before                                          *)
(***************************************************************************)
MaxBatchSize == 2

Root == <<Dir>>
FF == <<Dir, <<InvalidUtf8>>>>
FFFD == <<Dir, <<Replacement>>>>
\* the trees scanned: empty; three files; a file, a subdirectory and a
\* file in it; two files whose names have the same lossy form
ScanFileSystems ==
    {<<>>,
     [p \in {A_T, B_T, <<Dir, X>>} |-> File(Big(0, 100), 0)],
     [p \in {A_T, <<Dir, X>>, X_Y} |-> IF p = <<Dir, X>> THEN DirNode(0)
                                        ELSE File(Big(0, 100), 0)],
     [p \in {FF, FFFD} |-> File(Big(0, 100), 0)]}
ScanIgnores == {{}, {A_T}, {<<Dir, X>>}}
\* the cache before the scan
ScanCaches ==
    {[entries |-> NewRoot(Dir), next |-> 1],
     [entries |-> UpdateOrInsertFile(NewRoot(Dir), 1, <<"a", ".", "t">>, RootKey,
                                     Meta(A_T, Big(0, 108), 0)).entries,
      next |-> 2]}

InitScan ==
    /\ fs \in ScanFileSystems
    /\ \E cache \in ScanCaches : entries = cache.entries /\ next_key = cache.next
    /\ \E batch_size \in 1..MaxBatchSize, ignore \in ScanIgnores, on_batch \in BOOLEAN :
          /\ tret = Some([op |-> "scan", batch_size |-> batch_size, ignore |-> ignore,
                          on_batch |-> on_batch, before |-> entries])
          /\ \E order \in Orders(ReadDir(Root)) :
                stack = <<Frame(Root, RootKey, order, on_batch)>>
    /\ table = Some(<<>>)
    /\ on_batch_calls = <<>>
    /\ flushes = <<>>
    /\ batch_keys = <<>>
    /\ files = <<>> /\ oplog = <<>> /\ staged = None
    /\ rx = <<>> /\ recently_moved = {} /\ detected = {} /\ printed = None /\ pending = None
    /\ remove = None /\ create = None /\ score = None /\ CodecIdle /\ LockIdle
    /\ overflow_checks = FALSE
    /\ ThreadIdle
    /\ HeurIdle

NextScan == ScanFile \/ ScanFlush \/ ScanLastFlush \/ ScanSubdir \/ ScanReturn
SpecScan == InitScan /\ [][NextScan]_vars

(***************************************************************************)
(* Claims on the streaming scan (SpecScan)                                 *)
(***************************************************************************)
ScanDone == stack = <<>> /\ IsSome(tret) /\ Unwrap(tret).op = "scan"
NoTxnFailure == \A i \in 1..Len(flushes) : flushes[i].fail = "none"

\* the files of the tree that are not ignored and lie in no ignored directory
ScannedFiles ==
    {p \in DOMAIN fs :
        /\ ~IsDir(p)
        /\ \A n \in 2..Len(p) : ~IsIgnored(SubSeq(p, 1, n))}

\* C14 as claimed: after a scan without transaction failure the table holds
\* exactly as many records as the tree has non-ignored files.
C14_ExactlyNRecords ==
    (ScanDone /\ NoTxnFailure) =>
        Cardinality(DOMAIN Unwrap(table)) = Cardinality(ScannedFiles)

\* C14 as amended: after a scan without transaction failure the table holds
\* exactly one record under the lossy path string of every non-ignored file
\* and no other record, each the encoding of a file with that path string;
\* these are as many records as files when no two files share a path string.
C14_OneRecordPerPathString ==
    (ScanDone /\ NoTxnFailure) =>
        /\ DOMAIN Unwrap(table) = Keys(ScannedFiles)
        /\ \A k \in DOMAIN Unwrap(table) :
              \E p \in ScannedFiles :
                  SerializePath(p) = k /\ Unwrap(table)[k] = Serialize(Unwrap(FromPath(p)))
        /\ (\A p, q \in ScannedFiles : SerializePath(p) = SerializePath(q) => p = q) =>
              Cardinality(DOMAIN Unwrap(table)) = Cardinality(ScannedFiles)

\* a finished scan of three files that flushed them in two batches
C14_Witness ==
    /\ ScanDone /\ NoTxnFailure
    /\ Cardinality(ScannedFiles) = 3
    /\ Len(flushes) = 2
    /\ Cardinality(DOMAIN Unwrap(table)) = 3

\* C15: after the scan the map holds as many entries as before it.
C15_EntryCountBackToBaseline ==
    ScanDone => Cardinality(DOMAIN entries) = Cardinality(DOMAIN Unwrap(tret).before)

\* C16: at every point of the scan the map holds at most batch_size entries
\* more than before it.
C16_ResidentEntriesBounded ==
    (IsSome(tret) /\ Unwrap(tret).op = "scan") =>
        Cardinality(DOMAIN entries)
            <= Cardinality(DOMAIN Unwrap(tret).before) + Unwrap(tret).batch_size

\* C17 as claimed: on_batch has been called once per flushed batch, at
\* whichever level the batch was flushed.
C17_OnBatchOncePerFlush ==
    (IsSome(tret) /\ Unwrap(tret).op = "scan" /\ Unwrap(tret).on_batch) =>
        Len(on_batch_calls) = Len(flushes)

\* the flushes of the directory the scan was called for
TopLevelFlushes == SelectSeq(flushes, LAMBDA f : f.depth = 1)

\* C17 as amended: on_batch has been called once per batch flushed by the
\* directory the scan was called for, with the count of these batches so
\* far, and neither for a batch flushed in a subdirectory nor otherwise.
C17_OnBatchOncePerTopLevelFlush ==
    (IsSome(tret) /\ Unwrap(tret).op = "scan") =>
        on_batch_calls = IF Unwrap(tret).on_batch
                         THEN [i \in 1..Len(TopLevelFlushes) |-> i]
                         ELSE <<>>

\* a finished scan with on_batch that flushed one batch at the top and one
\* in a subdirectory
C17_Witness ==
    /\ ScanDone /\ Unwrap(tret).on_batch
    /\ Len(TopLevelFlushes) = 1
    /\ Len(flushes) = 2


(***************************************************************************)
(* handle_modify_name_event                                                *)
(***************************************************************************)
\* Path::parent
Parent(path) == IF path = <<>> THEN None ELSE Some(SubSeq(path, 1, Len(path) - 1))

\* the map after a two-path event, with the `from` entry left in place
RenameFilesKeepFrom(fl, from, to) == UpdateFileFiles(fl, to)

\* cache.remove_file(from); cache.update_file(to): the map afterwards
RenameFiles(fl, from, to) == UpdateFileFiles(RemoveFileFiles(fl, from), to)

\* what the handler prints
Report(kind, from, to) == Some([kind |-> kind, from |-> from, to |-> to])

\* the handler, for the name-modify event at the head of the queue.  `ret`
\* records the call: the event, the map before it, and what the stat of
\* the second path gave when update_file ran.
HandleModifyName ==
    /\ rx # <<>>
    /\ Head(rx).kind = "ModifyName"
    /\ rx' = Tail(rx)
    /\ LET paths == Head(rx).paths
       IN  /\ ret' = Some([op |-> "modify_name", arg |-> Head(rx), now |-> now,
                           before |-> files, panic |-> FALSE,
                           result |-> IF Len(paths) = 2 THEN FromPath(paths[2]) ELSE None])
           /\ IF Len(paths) = 2
              THEN LET from == paths[1]
                       to == paths[2]
                   IN  /\ printed' = Report(IF Parent(from) = Parent(to)
                                            THEN "rename" ELSE "move", from, to)
                       \* the two transactions of the store succeed
                       /\ files' = RenameFiles(files, from, to)
                       /\ table' = UpdateFileTable(RemoveFileTable(table, from, "none"),
                                                   to, "none")
                       /\ oplog' = RemoveFileLog(table, from, "none")
                                   \o UpdateFileLog(table, to, "none")
                       /\ recently_moved' = recently_moved \cup {to}
                       /\ detected' = detected \cup {to}
              ELSE /\ printed' = IF Len(paths) = 1
                                 THEN Report("single path", paths[1], paths[1])
                                 ELSE Report("unexpected paths", <<>>, <<>>)
                   /\ UNCHANGED <<files, table, oplog, recently_moved, detected>>
    /\ UNCHANGED <<fs, pending, staged, remove_events, max_age, now, next_id, paired,
                   overflow_checks, threadVars, treeVars, scanVars, scoreVars, codecVars, lockVars>>

(***************************************************************************)
(* SpecRename: the watcher over a directory whose files are renamed and    *)
(* moved, after the startup scan has filled the cache                      *)
(***************************************************************************)
\* the events the debouncer holds for the watcher at most
MaxQueue == 2

RenamePaths == {A_T, B_T, X_Y}
RenameFileSystems ==
    {[p \in S |-> File(Big(0, 100), 0)] : S \in {{A_T}, {A_T, B_T}, {A_T, X_Y}}}

InitRename ==
    /\ fs \in RenameFileSystems
    /\ rx = <<>> /\ recently_moved = {} /\ detected = {} /\ printed = None /\ pending = None
    \* the cache after the startup scan of fs
    /\ files = [p \in DOMAIN fs |-> Meta(p, fs[p].size, 0)]
    /\ table = Some([k \in Keys(DOMAIN fs) |->
                        Serialize(Meta(CHOOSE p \in DOMAIN fs : SerializePath(p) = k,
                                       Big(0, 100), 0))])
    /\ oplog = <<>>
    /\ staged = None
    /\ remove = None /\ create = None /\ score = None /\ CodecIdle /\ LockIdle
    /\ overflow_checks = FALSE
    /\ ThreadIdle
    /\ HeurIdle /\ TreeIdle /\ ScanIdle

RenameUnchanged ==
    UNCHANGED <<recently_moved, detected, printed, pending, cacheVars, heurVars, overflow_checks, threadVars,
                treeVars, scanVars, scoreVars, codecVars, lockVars>>

\* a file is renamed within its directory or moved to another one, onto a
\* free path or over another file: a name-modify event with both paths
OsRename ==
    /\ Len(rx) < MaxQueue
    /\ \E p \in DOMAIN fs, q \in RenamePaths :
          /\ q # p
          /\ fs' = Put(Del(fs, p), q, fs[p])
          /\ rx' = Append(rx, DebouncedEvent("ModifyName", <<p, q>>))
    /\ RenameUnchanged

\* a file is moved out of the watched directory: a name-modify event with
\* the one path
OsRenameAway ==
    /\ Len(rx) < MaxQueue
    /\ \E p \in DOMAIN fs :
          /\ fs' = Del(fs, p)
          /\ rx' = Append(rx, DebouncedEvent("ModifyName", <<p>>))
    /\ RenameUnchanged

\* a renamed file is written before its event is handled: its size changes
OsWrite ==
    /\ rx # <<>>
    /\ \E p \in DOMAIN fs \cap {Head(rx).paths[Len(Head(rx).paths)]}, size \in WatchSizes :
          /\ size # fs[p].size
          /\ fs' = Put(fs, p, File(size, 0))
    /\ UNCHANGED rx
    /\ RenameUnchanged

NextRename == OsRename \/ OsRenameAway \/ OsWrite \/ HandleModifyName
SpecRename == InitRename /\ [][NextRename]_vars

(***************************************************************************)
(* Claims on name-modify events (SpecRename)                               *)
(***************************************************************************)
\* the last event handled was a name-modify event with two paths
RenameHandled ==
    IsSome(ret) /\ Unwrap(ret).op = "modify_name" /\ Len(Unwrap(ret).arg.paths) = 2

\* the report is a rename within one directory and a move otherwise, the
\* `from` entry is gone, and the entries of the other paths are as before
RenameReportedAndApplied(r) ==
    LET from == r.arg.paths[1]
        to == r.arg.paths[2]
    IN  /\ printed = Report(IF Parent(from) = Parent(to) THEN "rename" ELSE "move",
                            from, to)
        /\ from \notin DOMAIN files
        /\ DOMAIN files \ {from, to} = DOMAIN r.before \ {from, to}
        /\ \A p \in DOMAIN files \ {from, to} : files[p] = r.before[p]

LinkfieldRedb == <<Dir, <<"linkfield", ".", "redb">>>>

\* Path::ends_with("linkfield.redb")
EndsWithRedb(path) == IsSome(FileName(path)) /\ Unwrap(FileName(path)) = LinkfieldRedb[2]

\* paths.iter().any(|p| p.ends_with("linkfield.redb") || is_dir(p) ||
\* recently_moved.remove(p)): `any` stops at the first path that gives
\* true, and a path is looked up in the set, and removed from it, only when
\* it is neither the database nor a directory.  hit: the result; moved: the
\* set afterwards.
RECURSIVE IsDirEvent(_, _)
IsDirEvent(paths, moved) ==
    IF paths = <<>> THEN [hit |-> FALSE, moved |-> moved]
    ELSE IF EndsWithRedb(Head(paths)) \/ IsDir(Head(paths))
         THEN [hit |-> TRUE, moved |-> moved]
         ELSE IF Head(paths) \in moved
              THEN [hit |-> TRUE, moved |-> moved \ {Head(paths)}]
              ELSE IsDirEvent(Tail(paths), moved)

Range(seq) == {seq[i] : i \in DOMAIN seq}

\* the `_` arm of handle_event.  "ModifyAny" is Modify(ModifyKind::Any);
\* "Other" is every other kind that reaches the arm (Access, Modify(Data),
\* Modify(Metadata), ...).  The event is swallowed (nothing is printed) when
\* it is a Modify(Any) and the `any` gave true.  `ret` records the call:
\* the event, the set before it, and the marks not yet followed by a
\* Modify(Any).
HandleOther ==
    /\ rx # <<>>
    /\ Head(rx).kind \in {"ModifyAny", "Other"}
    /\ rx' = Tail(rx)
    /\ LET event == Head(rx)
           is_dir_event == IsDirEvent(event.paths, recently_moved)
       IN  /\ recently_moved' = is_dir_event.moved
           /\ printed' = IF event.kind = "ModifyAny" /\ is_dir_event.hit
                         THEN None
                         ELSE Some([kind |-> "event", from |-> event.paths,
                                    to |-> event.paths])
           /\ ret' = Some([op |-> "event", arg |-> event, now |-> now,
                           before |-> recently_moved, panic |-> FALSE,
                           result |-> Some(detected)])
           /\ detected' = IF event.kind = "ModifyAny"
                          THEN detected \ Range(event.paths) ELSE detected
    /\ UNCHANGED <<fs, pending, cacheVars, remove_events, max_age, now, next_id, paired,
                   overflow_checks, threadVars, treeVars, scanVars, scoreVars, codecVars, lockVars>>

(***************************************************************************)
(* SpecRescan: the watcher over a directory whose files are renamed and    *)
(* moved, with the cache rescanned while events wait                       *)
(***************************************************************************)
\* scan_dir: scan_dir_collect, then diff_and_update with its result, under
\* the lock of the cache (the store's transaction succeeds)
Rescan ==
    /\ LET new_files == [p \in {q \in DOMAIN fs : ~IsDir(q)} |-> Unwrap(FromPath(p))]
       IN  /\ DiffAndUpdate(new_files, "none", {})
           /\ ret' = Some([op |-> "scan_dir", arg |-> new_files, now |-> now,
                           before |-> files, panic |-> FALSE, result |-> None])
    /\ UNCHANGED <<fs, rx, recently_moved, detected, printed, pending,
                   remove_events, max_age, now, next_id, paired,
                   overflow_checks, threadVars, treeVars, scanVars, scoreVars, codecVars, lockVars>>

\* a file is moved into the watched directory from outside, to a path
\* whose rename still waits in the queue: an event with the new path alone
\* (RenameMode::To)
OsRenameInto ==
    /\ Len(rx) < MaxQueue
    /\ \E q \in RenamePaths \ DOMAIN fs :
          /\ \E i \in DOMAIN rx : Len(rx[i].paths) = 2 /\ rx[i].paths[1] = q
          /\ fs' = Put(fs, q, File(Big(0, 100), 0))
          /\ rx' = Append(rx, DebouncedEvent("ModifyName", <<q>>))
    /\ RenameUnchanged

NextRescan == OsRename \/ OsRenameInto \/ HandleModifyName \/ Rescan
\* one file, d/a.t, in the watched directory
InitRescan == InitRename /\ DOMAIN fs = {A_T}
SpecRescan == InitRescan /\ [][NextRescan]_vars

(***************************************************************************)
(* SpecMoved: SpecWatch with the events that follow a move on some         *)
(* platforms                                                               *)
(***************************************************************************)
\* a file is written, read or touched while fewer than MaxEvents events
\* are queued or buffered
OsFollowOn ==
    /\ EventCount < MaxEvents
    /\ \E p \in DOMAIN fs, kind \in {"ModifyAny", "Other"} :
          rx' = Append(rx, DebouncedEvent(kind, <<p>>))
    /\ UNCHANGED <<fs, recently_moved, detected, printed, pending, cacheVars, heurVars,
                   overflow_checks, threadVars, treeVars, scanVars, scoreVars, codecVars, lockVars>>

\* the `_` arm, taken between two Create or Remove events
HandleFollowOn == pending = None /\ HandleOther

NextMoved == NextWatch \/ OsFollowOn \/ HandleFollowOn
SpecMoved == InitWatch /\ [][NextMoved]_vars

(***************************************************************************)
(* Claims on the dispatcher (SpecMoved, SpecRescan)                        *)
(***************************************************************************)
\* the last event handled was a Modify(Any) for one regular file
ModifyAnyHandled ==
    /\ IsSome(ret) /\ Unwrap(ret).op = "event"
    /\ Unwrap(ret).arg.kind = "ModifyAny"
    /\ Len(Unwrap(ret).arg.paths) = 1
    /\ ~EndsWithRedb(Unwrap(ret).arg.paths[1]) /\ ~IsDir(Unwrap(ret).arg.paths[1])

\* C21: after a move to Q is reported, Q is marked recently moved and the
\* next generic Modify event for Q is swallowed; the mark is removed when
\* it is consulted, so one follow-on event is suppressed per move and later
\* Modify events for Q are passed through.
C21_OneEventSuppressedPerMove ==
    /\ detected \subseteq recently_moved
    /\ ModifyAnyHandled =>
          LET r == Unwrap(ret)
              q == r.arg.paths[1]
          IN  /\ q \in Unwrap(r.result) <=> printed = None
              /\ q \notin recently_moved

\* the paths the patterns of .linkfieldignore match: here the one pattern
\* *.t
IgnoredPaths == {p \in RenamePaths : Extension(p) = Some(<<"t">>)}

\* the step takes an event off the queue and all its paths are ignored
IgnoredEventTaken ==
    /\ rx # <<>>
    /\ rx' = Tail(rx)
    /\ Range(Head(rx).paths) \subseteq IgnoredPaths

\* C22: an event whose path matches the ignore predicate is dropped before
\* dispatch: it changes neither the cache, nor the correlator's buffer of
\* pending deletes, nor the recently-moved set.
C22_IgnoredEventsDropped ==
    [][IgnoredEventTaken => UNCHANGED <<files, table, remove_events, recently_moved>>]_vars

(***************************************************************************)
(* start_watcher: the watcher thread and the ready handshake               *)
(*                                                                         *)
(* wthread.pc: "spawned", "debouncer" (new_debouncer returned Ok), "watch" *)
(* (watch returned Ok), "loop" (the signal is sent and the event loop      *)
(* runs), "exited" (the closure returned).  ready_ch: the messages sent on *)
(* and taken from the ready channel, and whether ready_tx still exists.    *)
(***************************************************************************)
\* the closure ends with ready_tx kept alive (mutant of ThreadReturn)
ThreadReturnKeepsSender ==
    /\ wthread' = [wthread EXCEPT !.pc = "exited"]
    /\ UNCHANGED ready_ch

\* the closure returns: ready_tx is dropped
ThreadReturn ==
    /\ wthread' = [wthread EXCEPT !.pc = "exited"]
    /\ ready_ch' = [ready_ch EXCEPT !.sender = FALSE]

\* new_debouncer(500 ms, None, tx)
ThreadNewDebouncer ==
    /\ wthread.pc = "spawned"
    /\ \E ok \in BOOLEAN :
          IF ok
          THEN wthread' = [wthread EXCEPT !.pc = "debouncer"] /\ UNCHANGED ready_ch
          ELSE ThreadReturn
    /\ UNCHANGED <<reported, poisoned, watchVars, cacheVars, heurVars, overflow_checks,
                   treeVars, scanVars, scoreVars, codecVars, lockVars>>

\* debouncer.watch(&watch_path, Recursive)
ThreadWatch ==
    /\ wthread.pc = "debouncer"
    /\ \E ok \in BOOLEAN :
          IF ok
          THEN /\ wthread' = [wthread EXCEPT !.pc = "watch", !.watching = TRUE]
               /\ UNCHANGED ready_ch
          ELSE ThreadReturn
    /\ UNCHANGED <<reported, poisoned, watchVars, cacheVars, heurVars, overflow_checks,
                   treeVars, scanVars, scoreVars, codecVars, lockVars>>

\* ready_tx.send(()), then the event loop; the send fails when ready_rx is
\* gone, that is, when start_watcher has returned
SendReady ==
    /\ IF reported = "Initializing"
       THEN /\ ready_ch' = [ready_ch EXCEPT !.sent = @ + 1]
            /\ wthread' = [wthread EXCEPT !.pc = "loop"]
       ELSE ThreadReturn
    /\ UNCHANGED <<reported, poisoned, watchVars, cacheVars, heurVars, overflow_checks,
                   treeVars, scanVars, scoreVars, codecVars, lockVars>>

\* the signal sent as soon as the debouncer exists
ThreadSignalBeforeWatch == wthread.pc = "debouncer" /\ SendReady

\* "Signal ready after watcher is set up"
ThreadSignal == wthread.pc = "watch" /\ SendReady

\* ready_rx.recv() in start_watcher: a message, or an error once ready_tx is
\* dropped with no message left
StartWatcherRecv ==
    /\ reported = "Initializing"
    /\ IF ready_ch.sent > ready_ch.taken
       THEN /\ ready_ch' = [ready_ch EXCEPT !.taken = @ + 1]
            /\ reported' = "Ready"
       ELSE /\ ~ready_ch.sender
            /\ reported' = "Failed"
            /\ UNCHANGED ready_ch
    /\ UNCHANGED <<wthread, poisoned, watchVars, cacheVars, heurVars, overflow_checks,
                   treeVars, scanVars, scoreVars, codecVars, lockVars>>

(***************************************************************************)
(* SpecReady: start_watcher from the spawn of the watcher thread, over a   *)
(* directory whose files are renamed and moved                             *)
(***************************************************************************)
InitReady ==
    /\ fs \in RenameFileSystems
    /\ rx = <<>> /\ recently_moved = {} /\ detected = {} /\ printed = None /\ pending = None
    /\ files = [p \in DOMAIN fs |-> Meta(p, fs[p].size, 0)]
    /\ table = Some([k \in Keys(DOMAIN fs) |->
                        Serialize(Meta(CHOOSE p \in DOMAIN fs : SerializePath(p) = k,
                                       Big(0, 100), 0))])
    /\ oplog = <<>>
    /\ staged = None
    /\ remove = None /\ create = None /\ score = None /\ CodecIdle /\ LockIdle
    /\ overflow_checks = FALSE
    /\ HeurIdle /\ TreeIdle /\ ScanIdle
    /\ wthread = [pc |-> "spawned", watching |-> FALSE]
    /\ ready_ch = [sent |-> 0, taken |-> 0, sender |-> TRUE]
    /\ reported = "Initializing"
    /\ poisoned = {}

\* a rename before the watch is installed: no event
UnwatchedRename ==
    /\ ~wthread.watching
    /\ \E p \in DOMAIN fs, q \in RenamePaths :
          /\ q # p
          /\ fs' = Put(Del(fs, p), q, fs[p])
    /\ UNCHANGED rx
    /\ RenameUnchanged

\* the debouncer sends on tx once the watch is installed
WatchedRename == wthread.watching /\ OsRename
WatchedRenameAway == wthread.watching /\ OsRenameAway

\* `for result in rx`
LoopHandleModifyName == wthread.pc = "loop" /\ HandleModifyName

NextReady ==
    \/ ThreadNewDebouncer \/ ThreadWatch \/ ThreadSignal \/ StartWatcherRecv
    \/ UnwatchedRename \/ WatchedRename \/ WatchedRenameAway \/ LoopHandleModifyName
SpecReady == InitReady /\ [][NextReady]_vars

\* the step is a call update_file(path) for a path the OS cannot stat
UpdateFileStatFails ==
    /\ fs' = fs
    /\ oplog' # <<>>
    /\ oplog'[1][1] = "update_file"
    /\ \A path \in oplog'[1][2] : ~IsSome(FromPath(path))

\* C28: update_file(path) is a no-op when the OS stat of path fails: the
\* in-memory map and the durable store are unchanged, no transaction is
\* begun and nothing else happens.
C28_UpdateFileNoOpWhenStatFails ==
    [][UpdateFileStatFails =>
          /\ files' = files
          /\ table' = table
          /\ Len(oplog') = 1]_vars

\* update_file was called for a path that no longer exists and whose entry
\* the cache still holds
C28_Witness ==
    /\ Len(oplog) = 1 /\ oplog[1][1] = "update_file"
    /\ \E path \in oplog[1][2] : path \notin DOMAIN fs /\ path \in DOMAIN files
    /\ IsSome(table) /\ Unwrap(table) # <<>>

(***************************************************************************)
(* SpecStore: SpecCache with rescans of the directory                      *)
(***************************************************************************)
\* scan_dir(dir) on a cache with a database, whose transaction may fail
ScanDirCall ==
    /\ \E fail \in TxnFailures :
          DiffAndUpdate([p \in {q \in DOMAIN fs : ~IsDir(q)} |-> Unwrap(FromPath(p))],
                        fail, {})
    /\ UNCHANGED fs
    /\ CacheUnchanged

NextStore == NextCache \/ ScanDirCall
SpecStore == InitCache /\ [][NextStore]_vars

\* the last call's write transaction failed at begin_write, open_table or
\* commit
StoreWriteFailed ==
    LogIndexes(oplog, {"begin_write:err", "open_table:err", "commit:err"}) # {}

\* the paths whose entries the last call changed or meant to change
Affected ==
    LogPaths(oplog, {"files.insert", "files.remove"})

\* the row of the store under the key of path p is the one the map's entry
\* for p serialises to, or both are absent
InSync(fl, t, p) ==
    IF p \in DOMAIN fl
    THEN /\ SerializePath(p) \in DOMAIN t
         /\ t[SerializePath(p)] = Serialize(fl[p])
    ELSE SerializePath(p) \notin DOMAIN t

\* the step is a call on the cache whose write transaction fails (the
\* other steps of SpecStore change the directory)
FailedCall == fs' = fs /\ StoreWriteFailed'

\* a failed call: one transaction was begun and none after it, the store
\* is as before, and the map holds what the OS reports for the affected
\* paths
FailedWriteAbandoned ==
    FailedCall =>
        /\ Cardinality(LogIndexes(oplog', {"begin_write", "begin_write:err"})) = 1
        /\ LogIndexes(oplog', {"commit"}) = {}
        /\ table' = table
        /\ \A p \in LogPaths(oplog', {"files.insert"}) :
              p \in DOMAIN files' /\ files'[p] = Unwrap(FromPath(p))
        /\ \A p \in LogPaths(oplog', {"files.remove"}) : p \notin DOMAIN files'

\* C26 as claimed: when the write transaction of batch_commit,
\* single_insert or single_remove fails, the call is abandoned without
\* retry, the store is unchanged, the map has the change, and every
\* affected key differs between map and store.
C26_FailedWriteLeavesGap ==
    [][/\ FailedWriteAbandoned
       /\ FailedCall =>
             \A p \in Affected' : ~InSync(files', Unwrap(table'), p)]_vars

\* C26: when the write transaction of batch_commit, single_insert or
\* single_remove fails, the call is abandoned without retry, the store is
\* unchanged and the map has the change; an affected key differs between
\* map and store exactly when the store did not hold the changed entry
\* before the call.
C26_FailedWriteLeavesStore ==
    [][/\ FailedWriteAbandoned
       /\ FailedCall =>
             \A p \in Affected' :
                 InSync(files', Unwrap(table'), p) <=> InSync(files', Unwrap(table), p)]_vars

\* a commit failed, and the map holds a file the store has no row for
C26_Witness ==
    /\ LogIndexes(oplog, {"commit:err"}) # {}
    /\ \E p \in Affected : p \in DOMAIN files /\ ~InSync(files, Unwrap(table), p)

\* C25: the dispatcher and a scan mutate the cache concurrently, with no
\* single lock serialising them: while a scan is in progress (it has
\* inserted the files of a batch it has not flushed yet) the dispatcher can
\* apply an event to the cache.
C25_DispatcherRunsDuringScan ==
    batch_keys # <<>> => ENABLED (DispatcherUpdateFile \/ DispatcherRemoveFile)

\* C24: a rescan that runs concurrently with the dispatcher loses no change
\* of a dispatcher event: once the rescan has finished (the cache starts
\* from a finished scan, and further rescans run at any moment) and every
\* queued event has been handled, the cache holds a record for exactly the
\* files that exist.
C24_RescanConverges ==
    rx = <<>> => DOMAIN files = {p \in DOMAIN fs : ~IsDir(p)}

\* C23: the watcher thread signals readiness exactly once, after the
\* recursive watch on the root is installed and before it handles any
\* event; start_watcher reports Ready only after it has received the
\* signal, and never leaves Ready.
C23_ReadyHandshake ==
    /\ [](/\ ready_ch.sent <= 1
          /\ ready_ch.sent = 1 <=> wthread.pc = "loop"
          /\ ready_ch.sent = 1 => wthread.watching
          /\ IsSome(ret) => ready_ch.sent = 1
          /\ reported = "Ready" <=> ready_ch.taken = 1
          /\ ready_ch.taken <= ready_ch.sent)
    /\ [][reported # "Initializing" => reported' = reported]_vars

\* Ready is reported while events wait, and an event has been handled
C23_Witness ==
    /\ reported = "Ready"
    /\ IsSome(ret)
    /\ rx # <<>>

(***************************************************************************)
(* SpecLock: the dispatcher with poisoned locks                            *)
(*                                                                         *)
(* poisoned: the Mutexes a panicking thread held; lock() returns Err on    *)
(* them from then on.  wthread.dispatcher names the event loop: the one of *)
(* watcher.rs, which matches on the result of lock(), or the one of        *)
(* main.rs, which unwraps it.                                              *)
(***************************************************************************)
Locks == {"file_cache", "heuristics"}
Dispatchers == {"watcher.rs", "main.rs"}
Running == wthread.pc = "loop"
CacheLocks == "file_cache" \notin poisoned
HeuristicsLocks == "heuristics" \notin poisoned

InitLock ==
    /\ fs = [p \in {A_T} |-> File(Big(0, 100), 0)]
    /\ rx = <<>> /\ recently_moved = {} /\ detected = {} /\ printed = None /\ pending = None
    /\ files = [p \in {A_T} |-> Meta(A_T, Big(0, 100), 0)]
    /\ table = Some([k \in {SerializePath(A_T)} |-> Serialize(Meta(A_T, Big(0, 100), 0))])
    /\ oplog = <<>>
    /\ staged = None
    /\ remove_events = <<>>
    /\ max_age = MaxAgeSecs
    /\ now = 0
    /\ ret = None
    /\ next_id = 1
    /\ paired = <<>>
    /\ overflow_checks = FALSE
    /\ remove = None /\ create = None /\ score = None /\ CodecIdle /\ LockIdle
    /\ TreeIdle /\ ScanIdle
    /\ \E d \in Dispatchers :
          wthread = [pc |-> "loop", watching |-> TRUE, dispatcher |-> d]
    /\ ready_ch = [sent |-> 1, taken |-> 1, sender |-> TRUE]
    /\ reported = "Ready"
    /\ poisoned = {}

\* a thread panics while it holds a lock
PoisonLock ==
    /\ \E l \in Locks \ poisoned : poisoned' = poisoned \cup {l}
    /\ UNCHANGED <<wthread, ready_ch, reported, watchVars, cacheVars, heurVars,
                   overflow_checks, treeVars, scanVars, scoreVars, codecVars, lockVars>>

\* the handlers when every lock they take is granted
LockedRemove == Running /\ poisoned = {} /\ HandleRemove
LockedCreateUpdate == Running /\ CacheLocks /\ HandleCreateUpdate
LockedCreatePair == Running /\ poisoned = {} /\ HandleCreatePair

\* handle_remove_event of watcher.rs when a lock is refused
RemoveLockFailed ==
    /\ Running /\ wthread.dispatcher = "watcher.rs"
    /\ poisoned # {}
    /\ pending = None
    /\ rx # <<>>
    /\ Head(rx).kind = "Remove"
    /\ rx' = Tail(rx)
    /\ LET path == Head(rx).paths[1]
           meta == IF CacheLocks THEN Get(files, path) ELSE None
       IN  /\ IF HeuristicsLocks
              THEN AddRemove(MakeFileEvent(path, "Remove", now, meta), now)
              ELSE UNCHANGED <<remove_events, next_id, ret, paired>>
           /\ IF CacheLocks
              THEN /\ files' = RemoveFileFiles(files, path)
                   /\ table' = RemoveFileTable(table, path, "none")
                   /\ oplog' = RemoveFileLog(table, path, "none")
              ELSE UNCHANGED <<files, table, oplog>>
           /\ printed' = None
    /\ UNCHANGED <<fs, recently_moved, detected, pending, staged, max_age, now,
                   overflow_checks, threadVars, treeVars, scanVars, scoreVars, codecVars, lockVars>>

\* handle_create_event of watcher.rs, first lock refused: update_file is
\* skipped
CreateUpdateLockFailed ==
    /\ Running /\ wthread.dispatcher = "watcher.rs"
    /\ ~CacheLocks
    /\ pending = None
    /\ rx # <<>>
    /\ Head(rx).kind = "Create"
    /\ rx' = Tail(rx)
    /\ pending' = Some(Head(rx).paths[1])
    /\ UNCHANGED <<fs, recently_moved, detected, printed, cacheVars, heurVars,
                   overflow_checks, threadVars, treeVars, scanVars, scoreVars, codecVars, lockVars>>

\* handle_create_event of watcher.rs from the second lock on, with a lock
\* refused: meta is None without the cache, the pair is None without the
\* correlator
CreatePairLockFailed ==
    /\ Running /\ wthread.dispatcher = "watcher.rs"
    /\ poisoned # {}
    /\ IsSome(pending)
    /\ LET path == Unwrap(pending)
           meta == IF CacheLocks THEN Get(files, path) ELSE None
           file_event == MakeFileEvent(path, "Create", now, meta)
       IN  IF HeuristicsLocks
           THEN /\ PairCreate(file_event, now)
                /\ LET pair == Unwrap(ret').result
                   IN  IF ~Unwrap(ret').panic /\ IsSome(pair)
                       THEN /\ printed' = Some([kind |-> "move",
                                                from |-> Unwrap(pair).from.path,
                                                to |-> Unwrap(pair).to.path])
                            /\ recently_moved' = recently_moved \cup {Unwrap(pair).to.path}
                            /\ detected' = detected \cup {Unwrap(pair).to.path}
                       ELSE /\ printed' = Some([kind |-> "create", from |-> path, to |-> path])
                            /\ UNCHANGED <<recently_moved, detected>>
           ELSE /\ printed' = Some([kind |-> "create", from |-> path, to |-> path])
                /\ UNCHANGED <<remove_events, ret, paired, recently_moved, detected>>
    /\ pending' = None
    /\ UNCHANGED <<fs, rx, cacheVars, max_age, now, next_id, overflow_checks, threadVars,
                   treeVars, scanVars, scoreVars, codecVars, lockVars>>

\* the loop of main.rs: lock().unwrap() on a poisoned Mutex panics, and the
\* watcher thread ends with the events that wait
UnwrapPanics ==
    /\ Running /\ wthread.dispatcher = "main.rs"
    /\ \/ /\ pending = None /\ rx # <<>> /\ Head(rx).kind = "Remove"
          /\ poisoned # {}
          /\ rx' = Tail(rx)
       \/ /\ pending = None /\ rx # <<>> /\ Head(rx).kind = "Create"
          /\ ~CacheLocks
          /\ rx' = Tail(rx)
       \/ /\ IsSome(pending)
          /\ poisoned # {}
          /\ UNCHANGED rx
    /\ wthread' = [wthread EXCEPT !.pc = "panicked"]
    /\ UNCHANGED <<fs, recently_moved, detected, printed, pending, ready_ch, reported,
                   poisoned, cacheVars, heurVars, overflow_checks, treeVars, scanVars,
                   scoreVars, codecVars, lockVars>>

NextLock ==
    \/ OsRemove \/ OsCreate \/ PoisonLock
    \/ LockedRemove \/ LockedCreateUpdate \/ LockedCreatePair
    \/ RemoveLockFailed \/ CreateUpdateLockFailed \/ CreatePairLockFailed
    \/ UnwrapPanics
SpecLock == InitLock /\ [][NextLock]_vars

\* C27: when the cache lock or the correlator lock cannot be acquired the
\* dispatcher abandons the step that needed it and goes on with the next
\* events: the dispatch loop never stops because of a lock failure.
C27_LockFailureNeverStopsLoop ==
    poisoned # {} => Running

(***************************************************************************)
(* FileMeta::deserialize and load_from_redb                                *)
(***************************************************************************)
\* bytes that no FileMeta encodes to
Corrupt == <<"corrupt">>

\* decode_from_slice succeeds on the encoding of a FileMeta; the empty Vec
\* and corrupt bytes give an error
Decodable(bytes) == Len(bytes) = 5

\* the record deserialize substitutes (meta.rs 58-64)
ZeroRecord ==
    [path |-> <<>>, size |-> Big(0, 0), modified |-> None, created |-> None,
     extension |-> None]

\* FileMeta::deserialize
Deserialize(bytes) ==
    IF Decodable(bytes)
    THEN [path |-> bytes[1], size |-> bytes[2], modified |-> bytes[3],
          created |-> bytes[4], extension |-> bytes[5]]
    ELSE ZeroRecord

\* PathBuf::from(k.value()): the components of the key's string
PathFromKey(k) == k

ReadFailures == {"none", "begin_read", "open_table", "range"}

\* the undecodable rows skipped
LoadFromRedbSkipUndecodable(fl, t, fail, bad) ==
    IF ~IsSome(t) \/ fail \in {"begin_read", "open_table"} THEN fl
    ELSE IF fail = "range" THEN <<>>
    ELSE [p \in {PathFromKey(k) : k \in {j \in DOMAIN Unwrap(t) \ bad :
                                             Decodable(Unwrap(t)[j])}}
             |-> Deserialize(Unwrap(t)[p])]

\* load_from_redb: the map afterwards.  `fail` names the call of the read
\* transaction that fails, `bad` the keys whose row the range iterator
\* cannot read.
LoadFromRedbFiles(fl, t, fail, bad) ==
    IF ~IsSome(t) \/ fail \in {"begin_read", "open_table"} THEN fl
    ELSE IF fail = "range" THEN <<>>
    ELSE [p \in {PathFromKey(k) : k \in DOMAIN Unwrap(t) \ bad}
             |-> Deserialize(Unwrap(t)[CHOOSE k \in DOMAIN Unwrap(t) \ bad :
                                           PathFromKey(k) = p])]

\* load_from_redb: its effects in order
LoadFromRedbLog(t, fail, bad) ==
    IF ~IsSome(t) THEN <<>>
    ELSE IF fail = "begin_read" THEN << <<"begin_read:err", {}>> >>
    ELSE IF fail = "open_table"
         THEN << <<"begin_read", {}>>, <<"open_table:err", {}>> >>
    ELSE IF fail = "range"
         THEN << <<"begin_read", {}>>, <<"open_table", {}>>, <<"files.clear", {}>>,
                 <<"range:err", {}>> >>
    ELSE << <<"begin_read", {}>>, <<"open_table", {}>>, <<"files.clear", {}>>,
            <<"range", {}>> >>
         \o (IF bad = {} THEN <<>> ELSE << <<"entry:err", bad>> >>)
         \o << <<"files.insert", {PathFromKey(k) : k \in DOMAIN Unwrap(t) \ bad}>> >>

(***************************************************************************)
(* SpecLoad: SpecCache over a store that holds rows of an earlier run,     *)
(* loaded at any moment                                                    *)
(***************************************************************************)
\* the rows of an earlier run: the encoding of a record, the empty Vec of
\* a failed serialize, or bytes of another layout
LoadTables ==
    UNION {[S -> {Serialize(Meta(X_Y, Big(0, 100), 0)), <<>>, Corrupt}] :
              S \in SUBSET Keys({<<Dir, X>>, X_Y})}

InitLoad ==
    /\ fs = <<>>
    /\ files = <<>>
    /\ \E t \in LoadTables : table = Some(t)
    /\ oplog = <<>>
    /\ staged = None
    /\ rx = <<>> /\ recently_moved = {} /\ detected = {} /\ printed = None /\ pending = None
    /\ remove = None /\ create = None /\ score = None /\ CodecIdle /\ LockIdle
    /\ overflow_checks = FALSE
    /\ ThreadIdle
    /\ HeurIdle /\ TreeIdle /\ ScanIdle

LoadFromRedbCall ==
    /\ \E fail \in ReadFailures, bad \in SUBSET DOMAIN Unwrap(table) :
          /\ fail # "none" => bad = {}
          /\ Cardinality(bad) <= 1
          /\ files' = LoadFromRedbFiles(files, table, fail, bad)
          /\ oplog' = <<<<"load_from_redb", {}>>>> \o LoadFromRedbLog(table, fail, bad)
    /\ UNCHANGED <<fs, table, staged>>
    /\ CacheUnchanged

NextLoad == NextCache \/ LoadFromRedbCall
SpecLoad == InitLoad /\ [][NextLoad]_vars

\* the last call was load_from_redb and every read of the store succeeded
Loaded ==
    /\ oplog # <<>> /\ oplog[1][1] = "load_from_redb"
    /\ LogIndexes(oplog, {"begin_read:err", "open_table:err", "range:err", "entry:err"}) = {}

\* C29: load_from_redb does not abort on a row that fails to deserialize:
\* after it the map holds one entry per row of the store, under the row's
\* key, with the zero-valued record for an undecodable row and the stored
\* record for every other row.
C29_LoadKeepsUndecodableRows ==
    Loaded =>
        LET t == Unwrap(table)
        IN  /\ DOMAIN files = {PathFromKey(k) : k \in DOMAIN t}
            /\ Cardinality(DOMAIN files) = Cardinality(DOMAIN t)
            /\ \A k \in DOMAIN t :
                  IF Decodable(t[k])
                  THEN Serialize(files[PathFromKey(k)]) = t[k]
                  ELSE files[PathFromKey(k)] = ZeroRecord

\* a store with a decodable and an undecodable row has been loaded
C29_Witness ==
    /\ Loaded
    /\ \E k \in DOMAIN Unwrap(table) : Decodable(Unwrap(table)[k])
    /\ \E k \in DOMAIN Unwrap(table) : ~Decodable(Unwrap(table)[k])

(***************************************************************************)
(* SpecCodec: one FileMeta, serialized and deserialized                    *)
(***************************************************************************)
\* seconds before (negative) and after the epoch
CodecTimes == {None, Some(-1), Some(0), Some(5)}
CodecRecords ==
    {[path |-> p, size |-> s, modified |-> m, created |-> c, extension |-> x] :
        p \in {A_T, X_FF, X_Y}, s \in {Big(0, 0), Big(0, 100)},
        m \in CodecTimes, c \in CodecTimes, x \in {None, Some(<<"t">>)}}

InitCodec ==
    /\ \E r \in CodecRecords : self_meta = Some(r)
    /\ vec = None /\ decoded = None /\ LockIdle
    /\ remove = None /\ create = None /\ score = None
    /\ overflow_checks = FALSE
    /\ ThreadIdle
    /\ HeurIdle /\ WatchIdle /\ CacheIdle /\ TreeIdle /\ ScanIdle

\* r.serialize()
SerializeCall ==
    /\ vec = None
    /\ vec' = Some(Serialize(Unwrap(self_meta)))
    /\ UNCHANGED <<self_meta, decoded, overflow_checks, threadVars, treeVars, scanVars,
                   heurVars, watchVars, cacheVars, scoreVars, lockVars>>

\* FileMeta::deserialize(&bytes)
DeserializeCall ==
    /\ IsSome(vec) /\ decoded = None
    /\ decoded' = Some(Deserialize(Unwrap(vec)))
    /\ UNCHANGED <<self_meta, vec, overflow_checks, threadVars, treeVars, scanVars,
                   heurVars, watchVars, cacheVars, scoreVars, lockVars>>

NextCodec == SerializeCall \/ DeserializeCall
SpecCodec == InitCodec /\ [][NextCodec]_vars

\* C30: for every record r, deserialize(serialize(r)) has r's path, size,
\* modified, created and extension.
C30_RoundTrip ==
    IsSome(decoded) =>
        /\ Unwrap(decoded).path = Unwrap(self_meta).path
        /\ Unwrap(decoded).size = Unwrap(self_meta).size
        /\ Unwrap(decoded).modified = Unwrap(self_meta).modified
        /\ Unwrap(decoded).created = Unwrap(self_meta).created
        /\ Unwrap(decoded).extension = Unwrap(self_meta).extension

(***************************************************************************)
(* SpecStartup: the streaming scan of run(), over a store that holds the   *)
(* row an earlier run wrote for d/b.t                                      *)
(***************************************************************************)
InitStartup ==
    /\ fs \in ScanFileSystems
    /\ entries = NewRoot(Dir) /\ next_key = 1
    /\ \E batch_size \in 1..MaxBatchSize, on_batch \in BOOLEAN :
          /\ tret = Some([op |-> "scan", batch_size |-> batch_size, ignore |-> {},
                          on_batch |-> on_batch, before |-> entries])
          /\ \E order \in Orders(ReadDir(Root)) :
                stack = <<Frame(Root, RootKey, order, on_batch)>>
    /\ table = Some([k \in Keys({B_T}) |-> Serialize(Meta(B_T, Big(0, 100), 0))])
    /\ on_batch_calls = <<>>
    /\ flushes = <<>>
    /\ batch_keys = <<>>
    /\ files = <<>> /\ oplog = <<>> /\ staged = None
    /\ rx = <<>> /\ recently_moved = {} /\ detected = {} /\ printed = None /\ pending = None
    /\ remove = None /\ create = None /\ score = None /\ CodecIdle /\ LockIdle
    /\ overflow_checks = FALSE
    /\ ThreadIdle
    /\ HeurIdle

SpecStartup == InitStartup /\ [][NextScan]_vars

\* C31: when startup population finishes without store failures the store
\* holds a record for exactly the files found on disk: the row of a file
\* deleted while the process was not running is removed.
C31_StartupStoreMatchesDisk ==
    (ScanDone /\ NoTxnFailure) => DOMAIN Unwrap(table) = Keys(ScannedFiles)

(***************************************************************************)
(* Claims on the life of a buffered delete (SpecHeur)                      *)
(***************************************************************************)
\* the step is a pair_create call that returns the delete e
ReturnedInStep(e) ==
    /\ Len(paired') = Len(paired) + 1
    /\ IsSome(Unwrap(ret').result)
    /\ Unwrap(Unwrap(ret').result).from.id = e.id
\* the delete e of the buffer is no longer in it after the step
LeavesInStep(e) == e.id \notin Ids(remove_events')
\* the delete e has reached max_age at the clock of the step
ExpiredInStep(e) == now - e.time >= max_age

\* C32: a buffered delete leaves the buffer exactly once, by being returned
\* by a pair_create or by being pruned for age, never both, and never
\* re-enters; a pair_create that returns none removes no unexpired delete.
C32_BufferedThenPairedOrExpired ==
    [][/\ \A i \in 1..Len(remove_events) :
             LET e == remove_events[i]
             IN  /\ LeavesInStep(e) => (ReturnedInStep(e) # ExpiredInStep(e))
                 /\ ReturnedInStep(e) => LeavesInStep(e)
       /\ \A id \in Ids(remove_events') \ Ids(remove_events) : id = next_id]_vars

(***************************************************************************)
(* SpecConsult: renames of a file or a directory, each followed by the     *)
(* generic events the platform sends for the new path                      *)
(***************************************************************************)
\* d/a.t is a file or a directory
ConsultFileSystems ==
    {[p \in {A_T} |-> File(Big(0, 100), 0)], [p \in {A_T} |-> DirNode(0)]}

InitConsult ==
    /\ fs \in ConsultFileSystems
    /\ rx = <<>> /\ recently_moved = {} /\ detected = {} /\ printed = None /\ pending = None
    \* the cache after the startup scan of fs: the files
    /\ files = [p \in {q \in DOMAIN fs : ~IsDir(q)} |-> Meta(p, fs[p].size, 0)]
    /\ table = Some([k \in Keys({q \in DOMAIN fs : ~IsDir(q)}) |->
                        Serialize(Meta(CHOOSE p \in DOMAIN fs : SerializePath(p) = k,
                                       Big(0, 100), 0))])
    /\ oplog = <<>>
    /\ staged = None
    /\ remove = None /\ create = None /\ score = None /\ CodecIdle /\ LockIdle
    /\ overflow_checks = FALSE
    /\ ThreadIdle
    /\ HeurIdle /\ TreeIdle /\ ScanIdle

NextConsult == OsRename \/ OsFollowOn \/ HandleModifyName \/ HandleFollowOn
SpecConsult == InitConsult /\ [][NextConsult]_vars

\* the last event handled went through the `_` arm
Consulted == IsSome(ret) /\ Unwrap(ret).op = "event"

\* C33: a path put in the recently-moved set is removed again by the next
\* consultation for it: when the `_` arm has handled an event, none of the
\* event's paths is left in the set.
C33_ConsultationRemovesPath ==
    Consulted =>
        \A i \in 1..Len(Unwrap(ret).arg.paths) :
            Unwrap(ret).arg.paths[i] \notin recently_moved

(***************************************************************************)
(* The ignore predicate in the streaming scan (SpecScan)                   *)
(***************************************************************************)
\* the path is ignored or lies in an ignored directory
Excluded(path) ==
    \E n \in 2..Len(path) : IsIgnored(SubSeq(path, 1, n))

\* C34: a scan with an ignore predicate makes no stat call on an ignored
\* path, and neither its batches nor the store hold an ignored path or a
\* path beneath an ignored directory.
C34_IgnoredExcludedBeforeStat ==
    (IsSome(tret) /\ Unwrap(tret).op = "scan") =>
        /\ \A i \in 1..Len(oplog) : \A p \in oplog[i][2] : ~IsIgnored(p)
        /\ \A i \in 1..Len(flushes) : \A j \in 1..Len(flushes[i].batch) :
               ~Excluded(flushes[i].batch[j][2].path)
        /\ \A p \in DOMAIN fs : Excluded(p) => SerializePath(p) \notin DOMAIN Unwrap(table)

(***************************************************************************)
(* SpecSync: a store loaded by load_from_redb, then update_file,           *)
(* remove_file and scan_dir (diff_and_update) in any order                 *)
(***************************************************************************)
\* the directory holds the file d/x, last modified at the epoch or one tick
\* before it
SyncFileSystems == {[p \in {<<Dir, X>>} |-> File(Big(0, 100), mtime)] : mtime \in {0, -1}}
\* the store: empty, or one row, decodable or not
SyncTables ==
    UNION {[S -> {Serialize(Meta(X_Y, Big(0, 100), 0)), Corrupt}] : S \in SUBSET Keys({X_Y})}

InitSync ==
    /\ fs \in SyncFileSystems
    /\ files = <<>>
    /\ \E t \in SyncTables : table = Some(t)
    /\ oplog = <<>>
    /\ staged = None
    /\ rx = <<>> /\ recently_moved = {} /\ detected = {} /\ printed = None /\ pending = None
    /\ remove = None /\ create = None /\ score = None /\ CodecIdle /\ LockIdle
    /\ overflow_checks = FALSE
    /\ ThreadIdle
    /\ HeurIdle /\ TreeIdle /\ ScanIdle

NextSync == LoadFromRedbCall \/ UpdateFileCall \/ RemoveFileCall \/ ScanDirCall
SpecSync == InitSync /\ [][NextSync]_vars

\* the path-to-record mapping the store holds: what load_from_redb reads
\* from it when every read succeeds
StoreMapping(t) == LoadFromRedbFiles(<<>>, t, "none", {})

\* a transaction of the last call, read or write, failed
StoreTransactionFailed ==
    LogIndexes(oplog, {"begin_write:err", "open_table:err", "commit:err",
                       "begin_read:err", "range:err", "entry:err"}) # {}

\* C35: load_from_redb leaves the map equal to the mapping of the store, and
\* every update_file, remove_file and diff_and_update whose store
\* transaction does not fail keeps them equal.
C35_StoreAndMapAgree ==
    /\ [](Loaded => files = StoreMapping(table))
    /\ [][(files = StoreMapping(table) /\ ~StoreTransactionFailed')
             => files' = StoreMapping(table')]_vars

(***************************************************************************)
(* SpecPair: one MoveHeuristics called with events of unknown, ordinary    *)
(* and very large sizes, and with a create at the path of a remove         *)
(***************************************************************************)
PairRemoveInputs ==
    {<<A_T, None>>, <<A_T, Some(Big(0, 100))>>, <<A_T, Some(U64Max)>>}
PairCreateInputs ==
    {<<E_A_T, None>>, <<E_A_T, Some(Big(0, 0))>>, <<A_T, Some(Big(0, 100))>>}

InitPair ==
    /\ remove_events = <<>>
    /\ max_age = 2
    /\ now = 0
    /\ ret = None
    /\ next_id = 1
    /\ paired = <<>>
    /\ overflow_checks \in BOOLEAN
    /\ ThreadIdle
    /\ remove = None /\ create = None /\ score = None /\ CodecIdle /\ LockIdle
    /\ WatchIdle /\ CacheIdle /\ TreeIdle /\ ScanIdle

PairAddRemove ==
    /\ next_id <= MaxRemoves
    /\ \E in \in PairRemoveInputs, lag \in Lags :
          AddRemove(Ev(in[1], "Remove", now - lag, in[2]), now)
    /\ UNCHANGED <<max_age, now, overflow_checks, threadVars, treeVars, scanVars, scoreVars, codecVars, lockVars,
                   watchVars, cacheVars>>

PairPairCreate ==
    /\ Len(paired) < MaxCreates
    /\ \E in \in PairCreateInputs :
          PairCreate(Ev(in[1], "Create", now, in[2]), now)
    /\ UNCHANGED <<max_age, now, next_id, overflow_checks, threadVars, treeVars, scanVars,
                   scoreVars, codecVars, lockVars, watchVars, cacheVars>>

NextPair == PairAddRemove \/ PairPairCreate \/ Tick
SpecPair == InitPair /\ [][NextPair]_vars

\* pair_create has returned a candidate
PairReturned == IsPairCreate(ret) /\ IsSome(Unwrap(ret).result)

\* C36: pair_create returns no candidate when the size of the remove or of
\* the create is unknown, or when the two sizes differ by 16 bytes or more.
C36_NoPairWithoutCloseSizes ==
    PairReturned =>
        LET cand == Unwrap(Unwrap(ret).result)
        IN  /\ IsSome(cand.from.size) /\ IsSome(cand.to.size)
            /\ BigLt(AbsDiff(Unwrap(cand.from.size), Unwrap(cand.to.size)),
                     Big(0, SizeDiffLimit))

\* C40: pair_create returns no candidate whose `from` path equals its `to`
\* path.
C40_NoPairOfAPathWithItself ==
    PairReturned =>
        Unwrap(Unwrap(ret).result).from.path # Unwrap(Unwrap(ret).result).to.path

(***************************************************************************)
(* SpecMutex: the threads of run() and the two Mutexes.  The main thread   *)
(* spawns the watcher thread and the scan thread and joins them; the       *)
(* dispatcher takes and drops the locks of one handler per event, the scan *)
(* thread the lock of its scan.  `threads` holds for a spawned thread the  *)
(* lock and unlock calls it has still to make.                             *)
(***************************************************************************)
MaxHandled == 2

Lock(l) == <<"lock", l>>
Unlock(l) == <<"unlock", l>>

\* handle_remove_event: get, add_remove, remove_file
HandleRemoveLocks ==
    <<Lock("file_cache"), Unlock("file_cache"), Lock("heuristics"), Unlock("heuristics"),
      Lock("file_cache"), Unlock("file_cache")>>

\* handle_create_event with pair_create called inside the scope of the
\* guard of get (mutant of HandleCreateLocks)
HandleCreateLocksNested ==
    <<Lock("file_cache"), Unlock("file_cache"), Lock("file_cache"), Lock("heuristics"),
      Unlock("heuristics"), Unlock("file_cache")>>

\* handle_create_event: update_file, get, pair_create
HandleCreateLocks ==
    <<Lock("file_cache"), Unlock("file_cache"), Lock("file_cache"), Unlock("file_cache"),
      Lock("heuristics"), Unlock("heuristics")>>

\* handle_modify_name_event with two paths: remove_file and update_file
\* under one guard
HandleModifyNameLocks == <<Lock("file_cache"), Unlock("file_cache")>>

\* the scan thread: the guard lives for the scan and the compaction
ScanThreadLocks == <<Lock("file_cache"), Unlock("file_cache")>>

Spawned == {"dispatcher", "scan"}
Unspawned == [state |-> "unspawned", code |-> <<>>, handled |-> 0]

InitMutex ==
    /\ mutex = [l \in Locks |-> "none"]
    /\ threads = [t \in {"main"} \cup Spawned |->
                     IF t = "main" THEN [state |-> "spawn_watcher", code |-> <<>>, handled |-> 0]
                     ELSE Unspawned]
    /\ ThreadIdle
    /\ remove = None /\ create = None /\ score = None /\ CodecIdle
    /\ overflow_checks = FALSE
    /\ HeurIdle /\ WatchIdle /\ CacheIdle /\ TreeIdle /\ ScanIdle

MutexUnchanged ==
    UNCHANGED <<overflow_checks, threadVars, treeVars, scanVars, heurVars, watchVars,
                cacheVars, scoreVars, codecVars>>

\* app.rs 63-73
MainSpawnWatcher ==
    /\ threads["main"].state = "spawn_watcher"
    /\ threads' = [threads EXCEPT !["main"].state = "spawn_scan",
                                  !["dispatcher"].state = "running"]
    /\ UNCHANGED mutex
    /\ MutexUnchanged

\* app.rs 77-101
MainSpawnScan ==
    /\ threads["main"].state = "spawn_scan"
    /\ threads' = [threads EXCEPT !["main"].state = "join_watcher",
                                  !["scan"].state = "running",
                                  !["scan"].code = ScanThreadLocks]
    /\ UNCHANGED mutex
    /\ MutexUnchanged

\* app.rs 102-103: the joins, in this order
MainJoin ==
    /\ \/ /\ threads["main"].state = "join_watcher"
          /\ threads["dispatcher"].state = "returned"
          /\ threads' = [threads EXCEPT !["main"].state = "join_scan"]
       \/ /\ threads["main"].state = "join_scan"
          /\ threads["scan"].state = "returned"
          /\ threads' = [threads EXCEPT !["main"].state = "wait_for_exit"]
    /\ UNCHANGED mutex
    /\ MutexUnchanged

\* the dispatcher takes the next event: the handler's calls lie ahead
DispatcherTakeEvent ==
    /\ threads["dispatcher"].state = "running"
    /\ threads["dispatcher"].code = <<>>
    /\ threads["dispatcher"].handled < MaxHandled
    /\ \E code \in {HandleRemoveLocks, HandleCreateLocks, HandleModifyNameLocks} :
          threads' = [threads EXCEPT !["dispatcher"].code = code,
                                     !["dispatcher"].handled = @ + 1]
    /\ UNCHANGED mutex
    /\ MutexUnchanged

\* a thread ends between two events (the channel of the debouncer closes)
\* or after its scan
ThreadEnds ==
    /\ \E t \in Spawned :
          /\ threads[t].state = "running"
          /\ threads[t].code = <<>>
          /\ threads' = [threads EXCEPT ![t].state = "returned"]
    /\ UNCHANGED mutex
    /\ MutexUnchanged

\* Mutex::lock returns: the Mutex was free
Acquire ==
    /\ \E t \in Spawned, l \in Locks :
          /\ threads[t].state = "running"
          /\ threads[t].code # <<>>
          /\ Head(threads[t].code) = Lock(l)
          /\ mutex[l] = "none"
          /\ mutex' = [mutex EXCEPT ![l] = t]
          /\ threads' = [threads EXCEPT ![t].code = Tail(@)]
    /\ MutexUnchanged

\* the guard goes out of scope
Release ==
    /\ \E t \in Spawned, l \in Locks :
          /\ threads[t].state = "running"
          /\ threads[t].code # <<>>
          /\ Head(threads[t].code) = Unlock(l)
          /\ mutex' = [mutex EXCEPT ![l] = "none"]
          /\ threads' = [threads EXCEPT ![t].code = Tail(@)]
    /\ MutexUnchanged

NextMutex ==
    \/ MainSpawnWatcher \/ MainSpawnScan \/ MainJoin
    \/ DispatcherTakeEvent \/ ThreadEnds \/ Acquire \/ Release
SpecMutex == InitMutex /\ [][NextMutex]_vars

\* the locks thread t holds, and the lock its next call asks for
Holding(t) == {l \in Locks : mutex[l] = t}
Requests(t) ==
    {l \in Locks : threads[t].code # <<>> /\ Head(threads[t].code) = Lock(l)}

\* C37: no thread holds the cache lock and the correlator lock at the same
\* time, no thread asks for a lock while it holds one, and the holder of a
\* lock another thread waits for is never itself waiting: the threads cannot
\* deadlock on the two locks.
C37_NoLockHeldWhileWaiting ==
    threads # <<>> =>
        \A t \in DOMAIN threads :
            /\ Cardinality(Holding(t)) <= 1
            /\ Requests(t) # {} => Holding(t) = {}
            /\ \A l \in Requests(t) :
                  mutex[l] # "none" => Requests(mutex[l]) = {}

\* the dispatcher, in its second event, waits for the cache lock the scan
\* thread holds
C37_Witness ==
    /\ threads # <<>>
    /\ mutex["file_cache"] = "scan"
    /\ "file_cache" \in Requests("dispatcher")
    /\ threads["dispatcher"].handled = MaxHandled

(***************************************************************************)
(* SpecReadyFair: SpecReady with threads that are scheduled: a call of the *)
(* watcher thread that can return does return, and so does the recv of     *)
(* start_watcher once a message or the close of the channel is there       *)
(***************************************************************************)
SpecReadyFair ==
    /\ InitReady /\ [][NextReady]_vars
    /\ WF_vars(ThreadNewDebouncer) /\ WF_vars(ThreadWatch) /\ WF_vars(ThreadSignal)
    /\ WF_vars(StartWatcherRecv)

\* the watcher thread has exited without sending the ready signal
ExitedUnready == wthread.pc = "exited" /\ ready_ch.sent = 0

\* C38: start_watcher always returns; when the watcher thread exits before
\* it has sent the ready signal, the ready channel is closed and the wait
\* of start_watcher ends with an error.
C38_StartWatcherAlwaysReturns ==
    /\ <>(reported # "Initializing")
    /\ [](wthread.pc = "exited" => ~ready_ch.sender)
    /\ (ExitedUnready ~> reported = "Failed")
    /\ [](ExitedUnready => reported # "Ready")

\* new_debouncer succeeded, watch failed, and start_watcher has returned
\* with the error
C38_Witness ==
    /\ ExitedUnready
    /\ reported = "Failed"

(***************************************************************************)
(* Eviction in the streaming scan (SpecScan)                               *)
(***************************************************************************)
\* the paths of the batches flushed so far
FlushedPaths ==
    UNION {{flushes[i].batch[j][1] : j \in 1..Len(flushes[i].batch)} : i \in 1..Len(flushes)}

\* C39: an entry is evicted from the in-memory map only after its record is
\* committed: every file of a flushed batch has a row in the store or its
\* entry still in the map, also when the commit of the batch has failed.
C39_EvictedOnlyAfterCommit ==
    \A p \in FlushedPaths :
        \/ SerializePath(p) \in DOMAIN Unwrap(table)
        \/ IsSome(FindEntryByPath(entries, p))

====
